---- MODULE Spec2Model ----
(***************************************************************************)
(* Kindergarten: rules, governesses, perimeter, purpose and sandbox.       *)
(*                                                                         *)
(* Two Sandboxes S1 and S2 with their main Governesses (`governess` is     *)
(* S1's, `governess2` is S2's), two Perimeters P1 and P2 and the Purposes  *)
(* the Sandboxes create for them.  Every public call is one atomic step    *)
(* (the library is synchronous); `last` records what the call in hand did: *)
(* its inputs, its outcome and the ordered events (guard verdicts,         *)
(* operation executions, flag readings, warnings) that happened inside it. *)
(* It is Idle between calls.  `chains` and `trace` belong to SpecChains,   *)
(* where the three steps of doUnguarded are taken one at a time by two     *)
(* call chains.                                                            *)
(*                                                                         *)
(* Spec        one Sandbox, one Perimeter, rules and calls                 *)
(* SpecStrict  the same calls under a StrictGoverness                      *)
(* SpecAttach  loadPerimeter, learnRules, renaming, both Sandboxes         *)
(* SpecChains  doUnguarded scopes of two call chains, step by step         *)
(* SpecMembers exposed names and purposes that are restricted, missing or  *)
(*             the names of methods of Purpose and Sandbox                 *)
(* SpecGoverness  Governesses assigned to the Sandbox and to Perimeters,   *)
(*             questions put to Perimeters and Purposes                    *)
(* SpecVariants  trampolines under GermanGoverness and MiddlewareGoverness *)
(* SpecRules   rules constructed from definitions of every kind            *)
(* SpecFrame   a Governess of any class put through every operation        *)
(* SpecContexts  two rule maps sharing one function, taught and reassigned *)
(***************************************************************************)
EXTENDS Integers, Sequences, FiniteSets

VARIABLES governess, governess2, perimeter, sandbox, chains, trace, last

vars == <<governess, governess2, perimeter, sandbox, chains, trace, last>>

----------------------------------------------------------------------------
(* Bounds *)

MaxRules == 2      \* rules a Governess may hold
MaxArgs == 2       \* arguments of one call
MaxCount == 2      \* guard / governed calls a StrictGoverness counts
MaxDepth == 2      \* doUnguarded calls nested in one another
MaxTrace == 4      \* doUnguarded steps of the two call chains together

----------------------------------------------------------------------------
(* Values of the host language *)

UNDEF == "<undefined>"

Values == {"a", "b"}

ArgLists == UNION {[1..n -> Values] : n \in 0..MaxArgs}

\* args[i] of a JavaScript argument list (0-based i); undefined past the end
Arg(args, i) == IF i + 1 <= Len(args) THEN args[i + 1] ELSE UNDEF

\* String(value), as RegExp.prototype.test coerces its argument
StringOf(v) == IF v = UNDEF THEN "undefined" ELSE v

\* truthiness of an action name
Truthy(v) == v \notin {UNDEF, ""}

----------------------------------------------------------------------------
(* Rule strings and rule definitions *)

RuleStrings == {"can act", "cannot act"}

\* str.match(TYPE_REGEX) on the rule strings of the model:
\* match[1] is "not" for "cannot", match[2] is the action name
TYPE_REGEX(str) ==
  CASE str = "can act"       -> [matched |-> TRUE, not |-> FALSE, action |-> "act"]
    [] str = "cannot act"    -> [matched |-> TRUE, not |-> TRUE,  action |-> "act"]
    [] str = "can other"     -> [matched |-> TRUE, not |-> FALSE, action |-> "other"]
    [] str = "cannot other"  -> [matched |-> TRUE, not |-> TRUE,  action |-> "other"]
    [] OTHER                 -> [matched |-> FALSE, not |-> FALSE, action |-> UNDEF]

\* raw definitions: an array of items, a RegExp (by the strings it accepts),
\* a function (by name; ruleContext is the property of that name of the
\* function object, the identity of a Perimeter once set)
DefArray(items) ==
  [tag |-> "array", items |-> items, accepts |-> {}, fn |-> "",
   ruleContext |-> UNDEF]
DefRegExp(accepts) ==
  [tag |-> "regexp", items |-> <<>>, accepts |-> accepts, fn |-> "",
   ruleContext |-> UNDEF]
DefFunction(fn) ==
  [tag |-> "function", items |-> <<>>, accepts |-> {}, fn |-> fn,
   ruleContext |-> UNDEF]

\* ['a'],  /^a$/,  (x, y) => x === 'a' && y === 'b'
RuleDefs == {DefArray(<<"a">>), DefRegExp({"a"}), DefFunction("isAB")}

\* a value that is no array, RegExp or function, by what it is: "true",
\* "false", "undefined", "string", "object"
DefValue(tag) ==
  [tag |-> tag, items |-> <<>>, accepts |-> {}, fn |-> "",
   ruleContext |-> UNDEF]

\* String(value) of every first argument there is
AllStrings == {"a", "b", "undefined"}

\* the definitions a Rule is constructed with in SpecRules:
\*   ['a'],  /.*/,  () => true,  (x, y) => x === 'a' && y === 'b',
\*   [],  true,  false,  undefined,  'a',  {}
DefInputs ==
  << DefArray(<<"a">>), DefRegExp(AllStrings), DefFunction("always"),
     DefFunction("isAB"), DefArray(<<>>), DefValue("true"), DefValue("false"),
     DefValue("undefined"), DefValue("string"), DefValue("object") >>

\* perimeter.mine, a member the Perimeters of SpecContexts are constructed
\* with:  new Perimeter({purpose, govern, expose, mine: 'a'})  for the first,
\* mine: 'b'  for the second
Mine(ctx) == IF ctx = "P1" THEN "a" ELSE "b"

\* the body of a custom rule function, applied to the context ctx:
\*   isAB    (x, y) => x === 'a' && y === 'b'
\*   always  () => true
\*   mine    function (x) { return x === this.mine }
\* (mine is only ever called by a Rule that learnRules constructed, hence
\* with a context)
CallFunction(fn, ctx, args) ==
  CASE fn = "isAB" -> Arg(args, 0) = "a" /\ Arg(args, 1) = "b"
    [] fn = "always" -> TRUE
    [] fn = "mine" -> ctx # UNDEF /\ Arg(args, 0) = Mine(ctx)
    [] OTHER -> FALSE

\* Definition.TYPES: name, condition, isStrictByDefault
TYPES ==
  << [name |-> "items",        strict |-> FALSE],
     [name |-> "regex",        strict |-> TRUE],
     [name |-> "customMethod", strict |-> TRUE] >>

\* conditions whose first takes any array, the empty one too
TypeConditionAnyArray(name, def) ==
  CASE name = "items"        -> def.tag = "array"
    [] name = "regex"        -> def.tag = "regexp"
    [] name = "customMethod" -> def.tag = "function"
    [] OTHER -> FALSE

TypeCondition(name, def) ==
  CASE name = "items"        -> def.tag = "array" /\ def.items # <<>>
    [] name = "regex"        -> def.tag = "regexp"
    [] name = "customMethod" -> def.tag = "function"
    [] OTHER -> FALSE

\* Definition._resolve: the name of the first matching type, or UNDEF
Resolve(def) ==
  IF \E i \in 1..Len(TYPES) : TypeCondition(TYPES[i].name, def)
  THEN TYPES[CHOOSE i \in 1..Len(TYPES) :
               /\ TypeCondition(TYPES[i].name, def)
               /\ \A j \in 1..(i - 1) : ~TypeCondition(TYPES[j].name, def)].name
  ELSE UNDEF

\* Definition._isStrictByDefault
IsStrictByDefault(type) ==
  \E i \in 1..Len(TYPES) : TYPES[i].name = type /\ TYPES[i].strict

\* new Rule(str, def); perim is rule._perimeter ("" when never set)
Rule(str, def, perim) ==
  [ raw      |-> str,
    action   |-> TYPE_REGEX(str).action,
    positive |-> ~TYPE_REGEX(str).not,
    dtype    |-> Resolve(def),
    def      |-> def,
    perim    |-> perim ]

\* Definition.isStrict()
IsStrict(rule) == ~rule.positive \/ IsStrictByDefault(rule.dtype)

\* `subject instanceof item` inside try/catch: the items of the model are
\* strings, for which instanceof throws and isInstance stays false
InstanceOf(subject, item) == FALSE

VerifyItems(rule, args) ==
  \E i \in 1..Len(rule.def.items) :
     InstanceOf(Arg(args, 0), rule.def.items[i]) \/ rule.def.items[i] = Arg(args, 0)

VerifyRegex(rule, args) == StringOf(Arg(args, 0)) \in rule.def.accepts

\* a custom method that is never satisfied
VerifyCustomMethodNever(rule, args) == FALSE

\* definition.customMethod.apply(definition.ruleContext, args); the
\* definition holds the ruleContext the function had when the Rule was
\* constructed
VerifyCustomMethod(rule, args) ==
  CallFunction(rule.def.fn, rule.def.ruleContext, args)

\* the forbidden/permitted condition itself, before the polarity is applied
VerifyByType(rule, args) ==
  CASE rule.dtype = "items"        -> VerifyItems(rule, args)
    [] rule.dtype = "regex"        -> VerifyRegex(rule, args)
    [] rule.dtype = "customMethod" -> VerifyCustomMethod(rule, args)
    [] OTHER -> FALSE

\* Rule.verify
Verify(rule, args) ==
  IF rule.positive THEN VerifyByType(rule, args) ELSE ~VerifyByType(rule, args)

----------------------------------------------------------------------------
(* HeadGoverness *)

Kinds == {"HeadGoverness", "EasyGoverness", "GermanGoverness"}

\* new K(): HeadGoverness starts guarded with no rules, EasyGoverness
\* sets unguarded in its constructor
\* (_guardCount and _governedCount are fields of a StrictGoverness only;
\* they stay 0 in the other classes)
NewGoverness(kind) ==
  [ kind          |-> kind,
    rules         |-> <<>>,
    unguarded     |-> (kind = "EasyGoverness"),
    guardCount    |-> 0,
    governedCount |-> 0,
    middleware    |-> "" ]

\* the middleware functions of the model:
\*   pass     (governess, callback, args, ctx) => {}
\*   guarding (governess, callback, args, ctx) => governess.guard('act', ...args)
\*   throwing (governess, callback, args, ctx) => { throw new Error() }
Middlewares == {"pass", "guarding", "throwing"}

\* new MiddlewareGoverness(middleware)
NewMiddlewareGoverness(middleware) ==
  [NewGoverness("MiddlewareGoverness") EXCEPT !.middleware = middleware]

\* no Governess: what perimeter.purposeGoverness is before it is created
NoGoverness == NewGoverness("none")

\* filter(list, pred), keeping the order
RECURSIVE FilterRules(_, _)
FilterRules(rules, action) ==
  IF rules = <<>> THEN <<>>
  ELSE IF Head(rules).action = action
       THEN <<Head(rules)>> \o FilterRules(Tail(rules), action)
       ELSE FilterRules(Tail(rules), action)

\* HeadGoverness.getRules: a falsy action selects every rule
GetRules(g, action) ==
  IF Truthy(action) THEN FilterRules(g.rules, action) ELSE g.rules

\* `rule.definition.isStrict` as isAllowed reads it: the method itself,
\* never called, and a function is truthy
IsStrictRef(rule) == TRUE

\* isAllowed without the unguarded shortcut
IsAllowedIgnoringUnguarded(g, action, args) ==
  LET rs == GetRules(g, action)
  IN  /\ \E i \in 1..Len(rs) : rs[i].positive /\ Verify(rs[i], args)
      /\ \A i \in 1..Len(rs) :
            /\ ~(~rs[i].positive /\ Verify(rs[i], args))
            /\ ~(rs[i].positive /\ IsStrictRef(rs[i]) /\ ~Verify(rs[i], args))

\* HeadGoverness.isAllowed
IsAllowed(g, action, args) ==
  IF g.unguarded THEN TRUE
  ELSE LET rs == GetRules(g, action)
           allowRules == {i \in 1..Len(rs) :
                            rs[i].positive /\ Verify(rs[i], args)}
           strictDisallowRules == {i \in 1..Len(rs) :
                            \/ ~rs[i].positive /\ Verify(rs[i], args)
                            \/ /\ rs[i].positive
                               /\ IsStrictRef(rs[i])
                               /\ ~Verify(rs[i], args)}
       IN  allowRules # {} /\ strictDisallowRules = {}

\* HeadGoverness.isNotAllowed
IsNotAllowed(g, action, args) == ~IsAllowed(g, action, args)

\* result of a call: how it ended, what it returned, the Governess after
\* it, and the guard/exec events in the order they happened
Returned(g, value, events) ==
  [outcome |-> "return", value |-> value, g |-> g, events |-> events]
Raised(g, error, events) ==
  [outcome |-> error, value |-> UNDEF, g |-> g, events |-> events]

GuardEvent(action, ok) == [e |-> "guard", name |-> action, ok |-> ok]
ExecEvent(fn) == [e |-> "exec", name |-> fn, ok |-> TRUE]

\* guard returning the action name in place of the target
GuardReturningAction(g, action, args) ==
  IF IsAllowed(g, action, args)
  THEN Returned(g, action, <<GuardEvent(action, TRUE)>>)
  ELSE Raised(g, "AccessDenied", <<GuardEvent(action, FALSE)>>)

\* HeadGoverness.guard
Guard(g, action, args) ==
  IF IsAllowed(g, action, args)
  THEN Returned(g, Arg(args, 0), <<GuardEvent(action, TRUE)>>)
  ELSE Raised(g, "AccessDenied", <<GuardEvent(action, FALSE)>>)

----------------------------------------------------------------------------
(* StrictGoverness.guard, and guard as the class of the Governess has it *)

\* a guard that counts the call once the verdict allowed it
StrictGuardCountingAllowed(g, action, args) ==
  IF IsAllowed(g, action, args)
  THEN Guard([g EXCEPT !.guardCount = @ + 1], action, args)
  ELSE Guard(g, action, args)

\* StrictGoverness.guard
StrictGuard(g, action, args) ==
  Guard([g EXCEPT !.guardCount = @ + 1], action, args)

\* a guard that leaves the Governess unguarded once it has allowed
GuardOfUnguarding(g, action, args) ==
  IF IsAllowed(g, action, args)
  THEN Returned([g EXCEPT !.unguarded = TRUE], Arg(args, 0),
                <<GuardEvent(action, TRUE)>>)
  ELSE Raised(g, "AccessDenied", <<GuardEvent(action, FALSE)>>)

\* governess.guard(...), dispatched on the class of the Governess
GuardOf(g, action, args) ==
  IF g.kind = "StrictGoverness"
  THEN StrictGuard(g, action, args)
  ELSE Guard(g, action, args)

\* a _resetCounts that leaves the counters as they are
KeepCounts(g) == g

\* StrictGoverness._resetCounts
ResetCounts(g) == [g EXCEPT !.guardCount = 0, !.governedCount = 0]

----------------------------------------------------------------------------
(* Perimeter and its exposed methods *)

Names == {"act", "other"}

\* bodies of exposed methods:
\*   plain()       { return 'ok'; }
\*   guarding(...) { this.governess.guard('act', ...arguments); return 'ok'; }
Functions == {"plain", "guarding"}

\* a body that catches what guard throws:
\*   catching(...) { try { this.governess.guard('act', ...arguments); }
\*                   catch (e) {}
\*                   return 'ok'; }
CatchingFunctions == {"catching"}

\* the Perimeter objects and the Sandbox objects
PerimIds == {"P1", "P2"}
SandboxIds == {"S1", "S2"}

\* purposes a Perimeter is named with
PurposeNames == {"p", "q"}

\* the methods of Sandbox.prototype and of Purpose.prototype
SandboxMembers ==
  { "guard", "isAllowed", "isNotAllowed", "loadPerimeter", "getPerimeter",
    "getPerimeters", "hasPerimeter" }
PurposeMembers == {"guard", "isAllowed", "isNotAllowed", "_loadPerimeter"}

\* the one of them Perimeters of the model are named after or expose
MemberNames == {"guard"}

\* the rule map the Perimeter is constructed with, in key order:
\*   govern: { 'can act': ['b'] }
Govern == << [raw |-> "can act", def |-> DefArray(<<"b">>)] >>

\* new Perimeter({purpose, govern, expose, <methods>}) without a governess;
\* id is the identity of the object, sandbox is _sandbox.  own tells what
\* _governess is: "null", the main Governess of a Sandbox (the id of the
\* Sandbox: one object with two references), the "former" main Governess of
\* a Sandbox or a Governess "given" to the Perimeter; ownGoverness is that
\* object in the last two cases.  given remembers whether the Perimeter was
\* ever given a Governess.
Perimeter(id, purpose, govern, expose, methods) ==
  [ id               |-> id,
    purpose          |-> purpose,
    govern           |-> govern,
    expose           |-> expose,
    methods          |-> methods,
    sandbox          |-> UNDEF,
    purposeGoverness |-> NoGoverness,
    own              |-> "null",
    ownGoverness     |-> NoGoverness,
    given            |-> FALSE ]

\* sandbox.governess of the Sandbox sb, in the state (g1, g2)
GovOf(g1, g2, sb) == IF sb = "S1" THEN g1 ELSE g2

\* perimeter.hasOwnGoverness()
HasOwnGoverness(p) == p.own # "null"

----------------------------------------------------------------------------
(* governed: the interception seam *)

\* GermanGoverness._detectNameOfExposedMethod: the first exposed name
\* whose member is the method
DetectNameOfExposedMethod(ctx, method) ==
  IF \E i \in 1..Len(ctx.expose) : ctx.methods[ctx.expose[i]] = method
  THEN ctx.expose[CHOOSE i \in 1..Len(ctx.expose) :
                    /\ ctx.methods[ctx.expose[i]] = method
                    /\ \A j \in 1..(i - 1) : ctx.methods[ctx.expose[j]] # method]
  ELSE UNDEF

\* the events of a call after those that came before it
After(events, r) == [r EXCEPT !.events = events \o r.events]

\* the rest of the body of guarding once its guard call ended as r:
\* return 'ok', or let the error out
GuardedBody(r) ==
  IF r.outcome = "return" THEN Returned(r.g, "ok", r.events) ELSE r

\* the rest of the body of catching once its guard call ended as r:
\* return 'ok' either way
CaughtBody(r) == Returned(r.g, "ok", r.events)

\* callback.apply(callingContext, args): the body of the exposed method
Apply(g, callback, args, ctx) ==
  CASE callback = "plain" ->
         Returned(g, "ok", <<ExecEvent(callback)>>)
    [] callback = "guarding" ->
         After(<<ExecEvent(callback)>>, GuardedBody(GuardOf(g, "act", args)))
    [] callback = "catching" ->
         After(<<ExecEvent(callback)>>, CaughtBody(GuardOf(g, "act", args)))

\* a base governed that guards the exposed name before the callback
HeadGovernedGuarding(g, callback, args, ctx) ==
  LET gr == Guard(g, DetectNameOfExposedMethod(ctx, callback), args)
  IN  IF gr.outcome # "return" THEN gr
      ELSE LET r == Apply(gr.g, callback, args, ctx)
           IN  [r EXCEPT !.events = gr.events \o r.events]

\* a base governed that runs the callback only when the rules allow it
HeadGovernedSkipping(g, callback, args, ctx) ==
  IF IsAllowed(g, DetectNameOfExposedMethod(ctx, callback), args)
  THEN Apply(g, callback, args, ctx)
  ELSE Returned(g, UNDEF, <<>>)

\* HeadGoverness.governed
HeadGoverned(g, callback, args, ctx) == Apply(g, callback, args, ctx)

\* a governed that runs the callback first and guards afterwards
GermanGovernedGuardingLate(g, callback, args, ctx) ==
  LET r == HeadGoverned(g, callback, args, ctx)
      gr == Guard(r.g, DetectNameOfExposedMethod(ctx, callback), args)
  IN  IF r.outcome # "return" THEN r
      ELSE IF gr.outcome # "return"
           THEN [gr EXCEPT !.events = r.events \o gr.events]
           ELSE [r EXCEPT !.events = r.events \o gr.events]

\* the rest of GermanGoverness.governed once its guard call ended as gr
GermanGuarded(gr, callback, args, ctx) ==
  IF gr.outcome # "return" THEN gr
  ELSE After(gr.events, HeadGoverned(gr.g, callback, args, ctx))

\* a calling context that is no Perimeter: the default, null
NullContext == [id |-> "null"]

\* isPerimeter(callingContext)
IsPerimeter(ctx) == ctx.id \in PerimIds

\* a detection that finds no name, undefined, in a context that is no
\* Perimeter instead of throwing
GermanDetectedAnyContext(g, callback, args, ctx) ==
  IF ~IsPerimeter(ctx)
  THEN GermanGuarded(Guard(g, UNDEF, args), callback, args, ctx)
  ELSE GermanGuarded(Guard(g, DetectNameOfExposedMethod(ctx, callback), args),
                     callback, args, ctx)

\* GermanGoverness.governed with _detectNameOfExposedMethod, which throws
\* Error before anything else when the context is no Perimeter
GermanDetected(g, callback, args, ctx) ==
  IF ~IsPerimeter(ctx)
  THEN Raised(g, "Error", <<>>)
  ELSE GermanGuarded(Guard(g, DetectNameOfExposedMethod(ctx, callback), args),
                     callback, args, ctx)

\* GermanGoverness.governed
GermanGoverned(g, callback, args, ctx) == GermanDetected(g, callback, args, ctx)

\* the check of StrictGoverness.governed on the Governess as counted
StrictChecked(r, counted) ==
  IF counted.governedCount > counted.guardCount /\ ~counted.unguarded
  THEN Raised(ResetCounts(counted), "AccessDenied", r.events)
  ELSE [r EXCEPT !.g = counted]

\* the rest of StrictGoverness.governed once the callback ended as r: an
\* error of the callback leaves before the count
StrictCounted(r) ==
  IF r.outcome # "return" THEN r
  ELSE StrictChecked(r, [r.g EXCEPT !.governedCount = @ + 1])

\* StrictGoverness.governed: the callback first, then the count
StrictGoverned(g, callback, args, ctx) ==
  StrictCounted(HeadGoverned(g, callback, args, ctx))

MiddlewareEvent(callback) == [e |-> "middleware", name |-> callback, ok |-> TRUE]

\* this.middleware(this, callback, args, callingContext)
CallMiddleware(g, callback, args, ctx) ==
  CASE g.middleware = "pass" ->
         Returned(g, UNDEF, <<MiddlewareEvent(callback)>>)
    [] g.middleware = "guarding" ->
         After(<<MiddlewareEvent(callback)>>, Guard(g, "act", args))
    [] OTHER ->
         Raised(g, "Error", <<MiddlewareEvent(callback)>>)

\* a governed that goes on to the callback whether the middleware threw or
\* not
MiddlewareRanRegardless(mr, callback, args, ctx) ==
  After(mr.events, HeadGoverned(mr.g, callback, args, ctx))

\* the rest of MiddlewareGoverness.governed once the middleware ended as mr
MiddlewareRan(mr, callback, args, ctx) ==
  IF mr.outcome # "return" THEN mr
  ELSE After(mr.events, HeadGoverned(mr.g, callback, args, ctx))

\* MiddlewareGoverness.governed: the middleware, then the base governed
MiddlewareGoverned(g, callback, args, ctx) ==
  MiddlewareRan(CallMiddleware(g, callback, args, ctx), callback, args, ctx)

\* governess.governed(...), dispatched on the class of the Governess
Governed(g, callback, args, ctx) ==
  CASE g.kind = "GermanGoverness" -> GermanGoverned(g, callback, args, ctx)
    [] g.kind = "StrictGoverness" -> StrictGoverned(g, callback, args, ctx)
    [] g.kind = "MiddlewareGoverness" ->
         MiddlewareGoverned(g, callback, args, ctx)
    [] OTHER                      -> HeadGoverned(g, callback, args, ctx)

----------------------------------------------------------------------------
(* learnRules / addRule *)

\* a hasRule that compares the rule string only
HasRuleByText(g, perim, rule) ==
  \E i \in 1..Len(g.rules) : g.rules[i].raw = rule.raw

\* HeadGoverness.hasRule; perim is the Perimeter object the rule came from
HasRule(g, perim, rule) ==
  \E i \in 1..Len(g.rules) :
     g.rules[i].raw = rule.raw /\ g.rules[i].perim = perim

\* HeadGoverness.addRule
AddRuleTo(g, rule) == [g EXCEPT !.rules = Append(g.rules, rule)]

\* if (isFunction(ruleDef)) ruleDef.ruleContext = ruleDef.ruleContext || perimeter
RuleContextSet(def, pid) ==
  IF def.tag = "function" /\ def.ruleContext = UNDEF
  THEN [def EXCEPT !.ruleContext = pid]
  ELSE def

\* HeadGoverness.learnRules from govern[i..] on: the Governess afterwards
\* and the number of rules added (`keys`)
RECURSIVE LearnFrom(_, _, _, _)
LearnFrom(g, p, i, keys) ==
  IF i > Len(p.govern) THEN [g |-> g, keys |-> keys]
  ELSE LET rule == Rule(p.govern[i].raw, RuleContextSet(p.govern[i].def, p.id),
                        p.id)
       IN  IF HasRule(g, p.id, rule)
           THEN LearnFrom(g, p, i + 1, keys)
           ELSE LearnFrom(AddRuleTo(g, rule), p, i + 1, keys + 1)

\* the Governess after governess.learnRules(p)
LearnRules(g, p) == LearnFrom(g, p, 1, 0).g

\* what governess.learnRules(p) returns
LearnRulesKeys(g, p) == LearnFrom(g, p, 1, 0).keys

----------------------------------------------------------------------------
(* doUnguarded *)

\* this.unguarded = true
EnterUnguarded(g) == [g EXCEPT !.unguarded = TRUE]

\* a finally block that restores nothing
RestoreNothing(g, previous) == g

\* finally { this.unguarded = previousUnguardedState }
RestoreUnguarded(g, previous) == [g EXCEPT !.unguarded = previous]

\* what a callback does last: return, throw, or call the trampoline
\* sandbox.p.act() / sandbox.p.other() and return what it returns
Leaves == {"return", "throw"} \cup Names

\* callbacks handed to doUnguarded: "nest" calls doUnguarded with the rest
\* of the sequence as its callback and then returns; a leaf ends the
\* sequence.  Every callback begins by reading governess.unguarded.
RECURSIVE CallbacksOfDepth(_)
CallbacksOfDepth(n) ==
  IF n = 1 THEN {<<leaf>> : leaf \in Leaves}
  ELSE {<<"nest">> \o cb : cb \in CallbacksOfDepth(n - 1)}

Callbacks == UNION {CallbacksOfDepth(n) : n \in 1..MaxDepth}

FlagEvent(value) == [e |-> "flag", name |-> "", ok |-> value]

\* sandbox.p[name](...args) on the first Sandbox, g being the Governess
\* the trampoline's Perimeter answers to
TrampolineVia(g, name, args) ==
  LET p == perimeter[sandbox["S1"].trampolines["p"][name]]
  IN  Governed(g, p.methods[name], args, p)

\* no result: what stands for the nested call in a callback that makes none
NoResult(g) == Returned(g, UNDEF, <<>>)

\* the rest of a "nest" callback once its doUnguarded call ended as nested
Nesting(nested) ==
  IF nested.outcome = "return"
  THEN Returned(nested.g, "done",
                nested.events \o <<FlagEvent(nested.g.unguarded)>>)
  ELSE nested

\* callback.apply(context); nested is what the doUnguarded call inside a
\* "nest" callback comes back with
RunCallback(g, callback, nested) ==
  After(<<FlagEvent(g.unguarded)>>,
        CASE Head(callback) = "nest"   -> Nesting(nested)
          [] Head(callback) = "return" -> Returned(g, "done", <<>>)
          [] Head(callback) = "throw"  -> Raised(g, "Error", <<>>)
          [] OTHER -> TrampolineVia(g, Head(callback), <<>>))

RECURSIVE DoUnguarded(_, _)

\* the doUnguarded call a "nest" callback makes
Nested(g, callback) ==
  IF Head(callback) = "nest" THEN DoUnguarded(g, Tail(callback))
                             ELSE NoResult(g)

\* finally { this.unguarded = previousUnguardedState }, then the result or
\* the error of the callback
Finally(r, previous) == [r EXCEPT !.g = RestoreUnguarded(r.g, previous)]

\* the same without finally: a throwing callback leaves the flag set
OnReturn(r, previous) == IF r.outcome = "return" THEN Finally(r, previous) ELSE r

\* this.unguarded = true; callback.apply(context)
Unguarded(g, callback) == RunCallback(g, callback, Nested(g, callback))

\* a doUnguarded that restores the flag after the callback returned only
DoUnguardedWithoutFinally(g, callback) ==
  OnReturn(Unguarded(EnterUnguarded(g), callback), g.unguarded)

\* HeadGoverness.doUnguarded(callback)
DoUnguarded(g, callback) ==
  Finally(Unguarded(EnterUnguarded(g), callback), g.unguarded)

----------------------------------------------------------------------------
(* AllowedMethodsService *)

ReservedWords ==
  { "abstract", "arguments", "await", "boolean", "break", "byte",
    "case", "catch", "char", "class", "const", "continue",
    "debugger", "default", "delete", "do", "double", "else",
    "enum", "eval", "export", "extends", "false", "final",
    "finally", "float", "for", "function", "goto", "if",
    "implements", "import", "in", "instanceof", "int", "interface",
    "let", "long", "native", "new", "null", "package",
    "private", "protected", "public", "return", "short", "static",
    "super", "switch", "synchronized", "this", "throw", "throws",
    "transient", "true", "try", "typeof", "var", "void",
    "volatile", "while", "with", "yield" }

CustomUnsafeList ==
  { "constructor", "prototype", "hasOwnProperty", "isPrototypeOf",
    "propertyIsEnumerable", "toLocaleString", "toString", "valueOf" }

\* isString(name) && METHOD_NAME_REGEX.test(name), on the strings of the
\* model: every one of them is an identifier but the empty string and
\* undefined (which is no string)
METHOD_NAME_REGEX(name) == name \notin {"", UNDEF}

\* AllowedMethodsService.isRestricted; fromDummy is keys(dummyObj), read at
\* the call when the service is strict and at construction when it is not
IsRestricted(fromDummy, methodName) ==
  \/ ~METHOD_NAME_REGEX(methodName)
  \/ methodName \in fromDummy
  \/ methodName \in CustomUnsafeList
  \/ methodName \in ReservedWords

\* keys(sandbox): its own fields and the Purposes assigned to it
SandboxKeys(sb) == {"child", "_governess", "_perimeters"} \cup sb.purposes

\* keys(purpose): its own fields and the trampolines assigned to it
PurposeKeys(sb, pn) ==
  {"_name", "_sandbox"} \cup {n \in Names \cup MemberNames : sb.trampolines[pn][n] # UNDEF}

----------------------------------------------------------------------------
(* Purpose._loadPerimeter and Sandbox.loadPerimeter                        *)
(* They work on the objects w = [g1, g2, perimeter, sandbox] and give back *)
(* the objects afterwards with the outcome of the call.                    *)

World == [g1 |-> governess, g2 |-> governess2,
          perimeter |-> perimeter, sandbox |-> sandbox]

SetGov(w, sb, g) == IF sb = "S1" THEN [w EXCEPT !.g1 = g] ELSE [w EXCEPT !.g2 = g]

\* perimeter.governess (the getter) among the objects w: _governess if the
\* Perimeter has one, else the Governess of its Sandbox, else null
GovernessOf(w, p) ==
  CASE p.own \in {"former", "given"} -> p.ownGoverness
    [] p.own \in SandboxIds -> GovOf(w.g1, w.g2, p.own)
    [] p.own = "null" /\ p.sandbox # UNDEF -> GovOf(w.g1, w.g2, p.sandbox)
    [] OTHER -> NoGoverness

\* the objects once a call has left the Governess perimeter.governess
\* refers to as g
SetGovernessOf(w, p, g) ==
  CASE p.own \in {"former", "given"} ->
         [w EXCEPT !.perimeter[p.id].ownGoverness = g]
    [] p.own \in SandboxIds -> SetGov(w, p.own, g)
    [] p.own = "null" /\ p.sandbox # UNDEF -> SetGov(w, p.sandbox, g)
    [] OTHER -> w

Done(w, value, events) ==
  [outcome |-> "return", value |-> value, w |-> w, events |-> events]
Failed(w, error, events) ==
  [outcome |-> error, value |-> UNDEF, w |-> w, events |-> events]

WarnEvent(name) == [e |-> "warn", name |-> name, ok |-> TRUE]

\* the each(exposedMethods, ...) loop of Purpose._loadPerimeter from
\* expose[i] on; initRestricted is keys(purpose) when the service was made
RECURSIVE PurposeLoadFrom(_, _, _, _, _, _, _)
PurposeLoadFrom(w, s, pn, pid, i, initRestricted, events) ==
  LET p == w.perimeter[pid]
      exposedMethod == p.expose[i]
      warned == IF \/ w.sandbox[s].trampolines[pn][exposedMethod] # UNDEF
                   \/ exposedMethod \in PurposeMembers
                THEN events \o <<WarnEvent(exposedMethod)>>
                ELSE events
  IN  IF i > Len(p.expose) THEN Done(w, UNDEF, events)
      ELSE IF IsRestricted(initRestricted, exposedMethod)
           THEN Failed(w, "RestrictedMethodError", events)
      ELSE IF p.methods[exposedMethod] = UNDEF
           THEN Failed(w, "NoExposedMethodError", warned)
      ELSE PurposeLoadFrom(
             [w EXCEPT !.sandbox[s].trampolines[pn][exposedMethod] = pid],
             s, pn, pid, i + 1, initRestricted, warned)

\* a _loadPerimeter that installs a trampoline for every exposed name it can
\* hold, whatever the name is and whether the Perimeter has the method or not
PurposeLoadUnchecked(w, s, pn, pid) ==
  Done([w EXCEPT !.sandbox[s].trampolines[pn] =
          [n \in DOMAIN @ |->
             IF \E i \in 1..Len(w.perimeter[pid].expose) :
                   w.perimeter[pid].expose[i] = n
             THEN pid ELSE @[n]]],
       UNDEF, <<>>)

\* Purpose._loadPerimeter(perimeter) of the Purpose pn of Sandbox s
PurposeLoadPerimeter(w, s, pn, pid) ==
  PurposeLoadFrom(w, s, pn, pid, 1, PurposeKeys(w.sandbox[s], pn), <<>>)

\* Sandbox._extendPurpose
ExtendPurpose(w, s, pid) ==
  LET name == w.perimeter[pid].purpose
  IN  IF IsRestricted(SandboxKeys(w.sandbox[s]), name)
      THEN Failed(w, "RestrictedMethodError", <<>>)
      ELSE PurposeLoadPerimeter(
             [w EXCEPT !.sandbox[s].purposes = @ \cup {name}], s, name, pid)

\* a Sandbox that never holds a Perimeter
HasPerimeterNever(w, s, purpose) == FALSE

\* Sandbox.hasPerimeter: some loaded Perimeter has this purpose now
HasPerimeter(w, s, purpose) ==
  \E i \in 1..Len(w.sandbox[s].perimeters) :
     w.perimeter[w.sandbox[s].perimeters[i]].purpose = purpose

\* perimeter.governess (its own, or that of the Sandbox the Perimeter is
\* in), if any, learns the rules
LearnByOwn(w, p) ==
  IF GovernessOf(w, p).kind # "none"
  THEN SetGovernessOf(w, p, LearnRules(GovernessOf(w, p), p))
  ELSE w

\* perimeter.purposeGoverness = new this.governess.constructor(), which
\* learns the rules, unless the Perimeter has one
LearnByPurposeGoverness(w, s, p) ==
  IF p.purposeGoverness.kind = "none"
  THEN [w EXCEPT !.perimeter[p.id].purposeGoverness =
          LearnRules(NewGoverness(GovOf(w.g1, w.g2, s).kind), p)]
  ELSE w

\* new this.governess.constructor() throws: the constructor of
\* MiddlewareGoverness is given no middleware
NoPurposeGoverness(w, s, p) ==
  /\ p.purposeGoverness.kind = "none"
  /\ GovOf(w.g1, w.g2, s).kind = "MiddlewareGoverness"

\* this.governess.learnRules(perimeter)
LearnByMain(w, s, p) == SetGov(w, s, LearnRules(GovOf(w.g1, w.g2, s), p))

\* perimeter.sandbox = this (which also sets perimeter.child);
\* this._perimeters.push(perimeter)
PushPerimeter(w, s, pid) ==
  [w EXCEPT !.perimeter[pid].sandbox = s,
            !.sandbox[s].perimeters = Append(@, pid)]

\* ++counter, unless _extendPurpose threw
Counted(r) == IF r.outcome = "return" THEN Done(r.w, 1, r.events) ELSE r

\* the body of the each(perimeters, ...) loop of Sandbox.loadPerimeter for
\* one Perimeter; value is what it adds to the counter
LoadOne(w, s, pid) ==
  IF HasPerimeter(w, s, w.perimeter[pid].purpose) THEN Done(w, 0, <<>>)
  ELSE IF NoPurposeGoverness(w, s, w.perimeter[pid])
  THEN Failed(LearnByOwn(w, w.perimeter[pid]), "Error", <<>>)
  ELSE Counted(
         ExtendPurpose(
           PushPerimeter(
             LearnByMain(
               LearnByPurposeGoverness(
                 LearnByOwn(w, w.perimeter[pid]), s, w.perimeter[pid]),
               s, w.perimeter[pid]),
             s, pid),
           s, pid))

\* Sandbox.loadPerimeter(...perimeters) from perimeters[i] on
RECURSIVE LoadEach(_, _, _, _, _, _)
LoadEach(w, s, pids, i, counter, events) ==
  IF i > Len(pids) THEN Done(w, counter, events)
  ELSE LET r == LoadOne(w, s, pids[i])
       IN  IF r.outcome = "return"
           THEN LoadEach(r.w, s, pids, i + 1, counter + r.value,
                         events \o r.events)
           ELSE Failed(r.w, r.outcome, events \o r.events)

----------------------------------------------------------------------------
(* State *)

\* action names asked about: one with rules, one without, and the falsy
\* ones (the empty string, and undefined for a call without a name)
Actions == {"act", "other", "", UNDEF}

\* `last`: the call made (op, name, args; idx is the position of the rule
\* for rule.verify), how it ended and the events inside it
Idle == [op |-> "none", name |-> "", idx |-> 0, args |-> <<>>,
         outcome |-> "return", value |-> UNDEF, events |-> <<>>]

Call(op, name, args, r) ==
  [op |-> op, name |-> name, idx |-> 0, args |-> args, outcome |-> r.outcome,
   value |-> r.value, events |-> r.events]

\* the rule map of the second Perimeter: the rule string of the first with
\* another definition,  govern: { 'can act': ['a'] }
Govern2 == << [raw |-> "can act", def |-> DefArray(<<"a">>)] >>

\* new Sandbox(child, {governess}): no Perimeter, no Purpose
NewSandbox ==
  [ perimeters  |-> <<>>,
    purposes    |-> {},
    trampolines |-> [pn \in PurposeNames \cup MemberNames |->
                       [n \in Names \cup MemberNames |-> UNDEF]] ]

\* the two Perimeters as constructed; methods are the members of the first
SecondPerimeter ==
  Perimeter("P2", "q", Govern2, <<"act">>,
            [n \in Names |-> IF n = "act" THEN "plain" ELSE UNDEF])

Perimeters(expose, methods) ==
  [id \in PerimIds |->
     IF id = "P1" THEN Perimeter("P1", "p", Govern, expose, methods)
                  ELSE SecondPerimeter]

\* the call chains of SpecChains
ChainIds == {"A", "B"}

\* nothing inside doUnguarded
NoChains ==
  /\ chains = [c \in ChainIds |-> <<>>]
  /\ trace = <<>>

\* new Sandbox(child, {governess: new K()}) and Perimeters not yet loaded
Init ==
  /\ \E kind \in Kinds : governess = NewGoverness(kind)
  /\ governess2 = NewGoverness("HeadGoverness")
  /\ \E fn \in Functions :
        perimeter = Perimeters(<<"act">>,
                               [n \in Names |-> IF n = "act" THEN fn ELSE UNDEF])
  /\ sandbox = [s \in SandboxIds |-> NewSandbox]
  /\ NoChains
  /\ last = Idle

\* the (rule string, definition) pairs rules are made from
RuleInputs == RuleStrings \X RuleDefs

\* a StrictGoverness whose counters have room for one more call
WithinCounts(g) == g.guardCount < MaxCount /\ g.governedCount < MaxCount

\* governess.addRule(new Rule(str, def))
AddRule(str, def) ==
  /\ last.op = "none"
  /\ Len(governess.rules) < MaxRules
  /\ governess' = AddRuleTo(governess, Rule(str, def, ""))
  /\ UNCHANGED <<governess2, perimeter, sandbox, chains, trace, last>>

\* the objects of a result become the state
Becomes(w) ==
  /\ governess' = w.g1
  /\ governess2' = w.g2
  /\ perimeter' = w.perimeter
  /\ sandbox' = w.sandbox

\* the call op(name, args) ended as r says: its objects become the state
\* (while no Governess holds more than MaxRules rules)
Ends(op, name, args, r) ==
  /\ Len(r.w.g1.rules) <= MaxRules
  /\ Len(r.w.g2.rules) <= MaxRules
  /\ Becomes(r.w)
  /\ last' = Call(op, name, args, r)

\* sandbox.loadPerimeter(...perimeters) on Sandbox s
LoadPerimeterCall(s, pids) ==
  /\ last.op = "none"
  /\ Ends("loadPerimeter", s, pids, LoadEach(World, s, pids, 1, 0, <<>>))
  /\ UNCHANGED <<chains, trace>>

\* sandbox.loadPerimeter(perimeter): the first Perimeter into the first
\* Sandbox
LoadPerimeter == LoadPerimeterCall("S1", <<"P1">>)

\* governess.unguarded = value
SetUnguarded(value) ==
  /\ last.op = "none"
  /\ governess.unguarded # value
  /\ governess' = [governess EXCEPT !.unguarded = value]
  /\ UNCHANGED <<governess2, perimeter, sandbox, chains, trace, last>>

\* governess.getRules()[i - 1].verify(...args)
VerifyCall(i, args) ==
  /\ last.op = "none"
  /\ i \in 1..Len(governess.rules)
  /\ last' = [Call("verify", governess.rules[i].raw, args,
                   Returned(governess, Verify(governess.rules[i], args), <<>>))
                EXCEPT !.idx = i]
  /\ UNCHANGED <<governess, governess2, perimeter, sandbox, chains, trace>>

\* sandbox.isAllowed(action, ...args)
IsAllowedCall(action, args) ==
  /\ last.op = "none"
  /\ last' = Call("isAllowed", action, args,
                  Returned(governess, IsAllowed(governess, action, args), <<>>))
  /\ UNCHANGED <<governess, governess2, perimeter, sandbox, chains, trace>>

\* sandbox.isNotAllowed(action, ...args)
IsNotAllowedCall(action, args) ==
  /\ last.op = "none"
  /\ last' = Call("isNotAllowed", action, args,
                  Returned(governess, IsNotAllowed(governess, action, args),
                           <<>>))
  /\ UNCHANGED <<governess, governess2, perimeter, sandbox, chains, trace>>

\* the Governess of Sandbox s is what the call left it as
GovernessBecomes(s, g) ==
  IF s = "S1" THEN governess' = g /\ UNCHANGED governess2
              ELSE governess2' = g /\ UNCHANGED governess

\* a call on the Governess of Sandbox s ended as r
GovernessCallEnds(op, name, args, s, r) ==
  /\ GovernessBecomes(s, r.g)
  /\ last' = Call(op, name, args, r)

\* sandbox.guard(action, ...args)
GuardCall(action, args) ==
  /\ last.op = "none"
  /\ WithinCounts(governess)
  /\ GovernessCallEnds("guard", action, args, "S1",
                       GuardOf(governess, action, args))
  /\ UNCHANGED <<perimeter, sandbox, chains, trace>>

\* a call forwarded by Perimeter p to perimeter.governess ended as r
PerimeterCallEnds(op, name, args, p, r) ==
  /\ Becomes(SetGovernessOf(World, p, r.g))
  /\ last' = Call(op, name, args, r)

\* perimeter.governed(perimeter[name], args, perimeter) of Perimeter p,
\* which is governess.governed of perimeter.governess
PerimeterGoverned(p, name, args) ==
  /\ GovernessOf(World, p).kind # "none"
  /\ WithinCounts(GovernessOf(World, p))
  /\ PerimeterCallEnds("trampoline", name, args, p,
                       Governed(GovernessOf(World, p), p.methods[name], args, p))

\* sandbox.p[name](...args): the trampoline the Purpose installed
Trampoline(name, args) ==
  /\ last.op = "none"
  /\ sandbox["S1"].trampolines["p"][name] # UNDEF
  /\ PerimeterGoverned(perimeter[sandbox["S1"].trampolines["p"][name]],
                       name, args)
  /\ UNCHANGED <<chains, trace>>

\* the callback calls no trampoline, or one that is installed and answers
\* to the Governess of the first Sandbox
CallsInstalled(leaf) ==
  leaf \in Names =>
    /\ sandbox["S1"].trampolines["p"][leaf] # UNDEF
    /\ perimeter[sandbox["S1"].trampolines["p"][leaf]].sandbox = "S1"
    /\ perimeter[sandbox["S1"].trampolines["p"][leaf]].own \in {"null", "S1"}

\* governess.doUnguarded(callback) on the Governess of the first Sandbox
DoUnguardedCall(callback) ==
  /\ last.op = "none"
  /\ WithinCounts(governess)
  /\ CallsInstalled(callback[Len(callback)])
  /\ GovernessCallEnds("doUnguarded", "", callback, "S1",
                       DoUnguarded(governess, callback))
  /\ UNCHANGED <<perimeter, sandbox, chains, trace>>

\* the call is over: its caller has the result (or has caught the error)
\* and is free to make the next call
Return ==
  /\ last.op # "none"
  /\ last' = Idle
  /\ UNCHANGED <<governess, governess2, perimeter, sandbox, chains, trace>>

Next ==
  \/ \E in \in RuleInputs : AddRule(in[1], in[2])
  \/ LoadPerimeter
  \/ \E value \in BOOLEAN : SetUnguarded(value)
  \/ \E i \in 1..MaxRules, args \in ArgLists : VerifyCall(i, args)
  \/ \E action \in Actions, args \in ArgLists : IsAllowedCall(action, args)
  \/ \E action \in Actions, args \in ArgLists : GuardCall(action, args)
  \/ \E name \in Names, args \in ArgLists : Trampoline(name, args)
  \/ \E callback \in Callbacks : DoUnguardedCall(callback)
  \/ Return

Spec == Init /\ [][Next]_vars

----------------------------------------------------------------------------
(* SpecStrict: a Sandbox whose Governess is a StrictGoverness, with a      *)
(* Perimeter exposing an operation that guards (act) and one that does     *)
(* not (other)                                                             *)

InitStrict ==
  /\ governess = NewGoverness("StrictGoverness")
  /\ governess2 = NewGoverness("HeadGoverness")
  /\ \E act \in {"guarding"} \cup CatchingFunctions :
        perimeter = Perimeters(<<"act", "other">>,
                               [n \in Names |-> IF n = "act" THEN act
                                                             ELSE "plain"])
  /\ sandbox = [s \in SandboxIds |-> NewSandbox]
  /\ NoChains
  /\ last = Idle

NextStrict ==
  \/ LoadPerimeter
  \/ \E value \in BOOLEAN : SetUnguarded(value)
  \/ \E action \in Actions, args \in ArgLists : GuardCall(action, args)
  \/ \E name \in Names, args \in ArgLists : Trampoline(name, args)
  \/ \E callback \in Callbacks : DoUnguardedCall(callback)
  \/ Return

SpecStrict == InitStrict /\ [][NextStrict]_vars

----------------------------------------------------------------------------
(* SpecAttach: both Sandboxes and both Perimeters; Perimeters are loaded,  *)
(* renamed and taught to the Governesses                                   *)

InitAttach ==
  /\ governess = NewGoverness("HeadGoverness")
  /\ governess2 = NewGoverness("HeadGoverness")
  /\ perimeter = Perimeters(<<"act">>,
                            [n \in Names |-> IF n = "act" THEN "plain" ELSE UNDEF])
  /\ sandbox = [s \in SandboxIds |-> NewSandbox]
  /\ NoChains
  /\ last = Idle

\* the Perimeters of one loadPerimeter call: one, or both in either order
PerimLists ==
  {<<pid>> : pid \in PerimIds}
    \cup {pids \in PerimIds \X PerimIds : pids[1] # pids[2]}

\* values assigned to perimeter.purpose: the purposes and a restricted name
PurposeValues == PurposeNames \cup {"constructor"}

\* perimeter.purpose = value
SetPurpose(pid, value) ==
  /\ last.op = "none"
  /\ IF IsRestricted({}, value)
     THEN /\ last' = Call("setPurpose", pid, <<value>>,
                          Failed(World, "NoPurposeError", <<>>))
          /\ UNCHANGED perimeter
     ELSE /\ last' = Call("setPurpose", pid, <<value>>,
                          Done(World, value, <<>>))
          /\ perimeter' = [perimeter EXCEPT ![pid].purpose = value]
  /\ UNCHANGED <<governess, governess2, sandbox, chains, trace>>

\* the functions of the rule map of Perimeter p
FunctionsOf(p) ==
  {p.govern[i].def.fn :
     i \in {j \in 1..Len(p.govern) : p.govern[j].def.tag = "function"}}

\* a function of the rule map of Perimeter pid is one object wherever a
\* rule map holds it: the ruleContext learnRules sets on it is set in all
SharedRuleContext(def, fns, pid) ==
  IF def.fn \in fns THEN RuleContextSet(def, pid) ELSE def

\* what learnRules(perimeter) does to the function objects of the rule map
\* (the rule maps of the Perimeters that are loaded, or given a Governess,
\* hold arrays, which learnRules leaves as they are)
RuleContextsSet(w, pid) ==
  [w EXCEPT !.perimeter =
     [q \in PerimIds |->
        [w.perimeter[q] EXCEPT !.govern =
           [i \in 1..Len(w.perimeter[q].govern) |->
              [w.perimeter[q].govern[i] EXCEPT !.def =
                 SharedRuleContext(w.perimeter[q].govern[i].def,
                                   FunctionsOf(w.perimeter[pid]), pid)]]]]]

\* a learnRules that first forgets what the Governess learned from the
\* Perimeter before
LearnRulesOnForgetting(w, s, p) ==
  Done(RuleContextsSet(
         SetGov(w, s,
                LearnRules([GovOf(w.g1, w.g2, s) EXCEPT !.rules =
                              SelectSeq(@, LAMBDA r : r.perim # p.id)], p)),
         p.id),
       LearnRulesKeys(GovOf(w.g1, w.g2, s), p), <<>>)

\* governess.learnRules(perimeter) on the objects w
LearnRulesOn(w, s, p) ==
  Done(RuleContextsSet(LearnByMain(w, s, p), p.id),
       LearnRulesKeys(GovOf(w.g1, w.g2, s), p), <<>>)

\* sandbox.governess.learnRules(perimeter) on Sandbox s
LearnRulesCall(s, pid) ==
  /\ last.op = "none"
  /\ Ends("learnRules", s, <<pid>>, LearnRulesOn(World, s, perimeter[pid]))
  /\ UNCHANGED <<chains, trace>>

\* sandbox[pn]._loadPerimeter(perimeter) on Sandbox s
PurposeLoadCall(s, pn, pid) ==
  /\ last.op = "none"
  /\ pn \in sandbox[s].purposes
  /\ Ends("purposeLoad", s, <<pn, pid>>,
          PurposeLoadPerimeter(World, s, pn, pid))
  /\ UNCHANGED <<chains, trace>>

NextAttach ==
  \/ \E s \in SandboxIds, pids \in PerimLists : LoadPerimeterCall(s, pids)
  \/ \E pid \in PerimIds, value \in PurposeValues : SetPurpose(pid, value)
  \/ \E s \in SandboxIds, pid \in PerimIds : LearnRulesCall(s, pid)
  \/ \E s \in SandboxIds, pn \in PurposeNames, pid \in PerimIds :
        PurposeLoadCall(s, pn, pid)
  \/ Return

SpecAttach == InitAttach /\ [][NextAttach]_vars

----------------------------------------------------------------------------
(* SpecMembers: one Sandbox whose first Perimeter exposes a method it has, *)
(* one it has not, a restricted name or the name of a method of Purpose,   *)
(* and whose Perimeters are also named after a method of Sandbox           *)

\* the expose lists of the first Perimeter; it has every method named but
\* `other`
ExposeLists ==
  { <<"act">>, <<"act", "other">>, <<"act", "constructor">>, <<"guard", "act">> }

InitMembers ==
  /\ governess = NewGoverness("HeadGoverness")
  /\ governess2 = NewGoverness("HeadGoverness")
  /\ \E expose \in ExposeLists :
        perimeter = Perimeters(expose,
                               [n \in Names \cup MemberNames |->
                                  IF n = "other" THEN UNDEF ELSE "plain"])
  /\ sandbox = [s \in SandboxIds |-> NewSandbox]
  /\ NoChains
  /\ last = Idle

NextMembers ==
  \/ \E pids \in PerimLists : LoadPerimeterCall("S1", pids)
  \/ \E pid \in PerimIds, value \in PurposeValues \cup MemberNames :
        SetPurpose(pid, value)
  \/ \E pn \in PurposeNames \cup MemberNames, pid \in PerimIds :
        PurposeLoadCall("S1", pn, pid)
  \/ \E name \in Names \cup MemberNames, args \in ArgLists :
        Trampoline(name, args)
  \/ Return

SpecMembers == InitMembers /\ [][NextMembers]_vars

----------------------------------------------------------------------------
(* SpecGoverness: one Sandbox whose main Governess is replaced and whose   *)
(* Perimeters are given Governesses of their own, or null; questions are   *)
(* put to the Perimeters and to the Purposes                               *)

\* values assigned to a governess property: null, new HeadGoverness(),
\* new EasyGoverness()
GovernessValues ==
  {NoGoverness, NewGoverness("HeadGoverness"), NewGoverness("EasyGoverness")}

\* Sandbox._learnRules: Governess g learns the rules of the Perimeters of
\* Sandbox s from perimeters[i] on
RECURSIVE LearnEach(_, _, _, _)
LearnEach(w, s, g, i) ==
  IF i > Len(w.sandbox[s].perimeters) THEN g
  ELSE LearnEach(w, s,
                 LearnRules(g, w.perimeter[w.sandbox[s].perimeters[i]]), i + 1)

\* the Perimeters whose _governess is the main Governess of Sandbox s keep
\* that object when the Sandbox is about to get another
KeepFormer(w, s) ==
  [w EXCEPT !.perimeter =
     [pid \in PerimIds |->
        IF w.perimeter[pid].own = s
        THEN [w.perimeter[pid] EXCEPT !.own = "former",
                                      !.ownGoverness = GovOf(w.g1, w.g2, s)]
        ELSE w.perimeter[pid]]]

\* a setter that does not call this._learnRules()
SandboxGovernessForgetting(w, s, value) ==
  IF value.kind = "none" THEN Failed(w, "NoGovernessError", <<>>)
  ELSE Done(SetGov(KeepFormer(w, s), s, value), UNDEF, <<>>)

\* sandbox.governess = value (the setter)
SandboxGoverness(w, s, value) ==
  IF value.kind = "none" THEN Failed(w, "NoGovernessError", <<>>)
  ELSE Done(SetGov(KeepFormer(w, s), s, LearnEach(w, s, value, 1)),
            UNDEF, <<>>)

\* a setter that takes the Governess it is given without teaching it
PerimeterGovernessSetUntaught(w, pid, value) ==
  [outcome |-> "return", value |-> UNDEF, events |-> <<>>,
   w |-> IF value.kind # "none"
         THEN [w EXCEPT !.perimeter[pid].own = "given",
                        !.perimeter[pid].ownGoverness = value,
                        !.perimeter[pid].given = TRUE]
         ELSE [w EXCEPT !.perimeter[pid].own = "null",
                        !.perimeter[pid].ownGoverness = NoGoverness]]

\* perimeter.governess = value (the setter): a Governess becomes
\* _governess; for any other value _governess becomes the Governess of the
\* Sandbox the Perimeter is in, or null; _governess learns the rules
PerimeterGovernessSet(w, pid, value) ==
  IF value.kind # "none"
  THEN Done([w EXCEPT !.perimeter[pid].own = "given",
                      !.perimeter[pid].ownGoverness =
                         LearnRules(value, w.perimeter[pid]),
                      !.perimeter[pid].given = TRUE], UNDEF, <<>>)
  ELSE IF w.perimeter[pid].sandbox # UNDEF
  THEN Done(SetGov([w EXCEPT !.perimeter[pid].own = w.perimeter[pid].sandbox,
                             !.perimeter[pid].ownGoverness = NoGoverness],
                   w.perimeter[pid].sandbox,
                   LearnRules(GovOf(w.g1, w.g2, w.perimeter[pid].sandbox),
                              w.perimeter[pid])),
            UNDEF, <<>>)
  ELSE Done([w EXCEPT !.perimeter[pid].own = "null",
                      !.perimeter[pid].ownGoverness = NoGoverness], UNDEF, <<>>)

\* Sandbox.getPerimeter: the first loaded Perimeter of that purpose, or
\* null
GetPerimeter(w, s, purpose) ==
  IF HasPerimeter(w, s, purpose)
  THEN w.sandbox[s].perimeters[
         CHOOSE i \in 1..Len(w.sandbox[s].perimeters) :
           /\ w.perimeter[w.sandbox[s].perimeters[i]].purpose = purpose
           /\ \A j \in 1..(i - 1) :
                 w.perimeter[w.sandbox[s].perimeters[j]].purpose # purpose]
  ELSE UNDEF

\* a Purpose that puts its questions to perimeter.governess always
PurposeAnswererEffective(w, p) == GovernessOf(w, p)

\* the Governess Purpose.isAllowed and Purpose.guard put the question to:
\* perimeter.governess if the Perimeter has its own, else
\* perimeter.purposeGoverness
PurposeAnswerer(w, p) ==
  IF HasOwnGoverness(p) THEN GovernessOf(w, p) ELSE p.purposeGoverness

\* a call on the Governess g that may be null: null has no methods
Forwarded(g, r) == IF g.kind = "none" THEN Raised(g, "TypeError", <<>>) ELSE r

\* sandbox.governess = value on the first Sandbox
SetSandboxGoverness(value) ==
  /\ last.op = "none"
  /\ Ends("setGoverness", "S1", <<value.kind>>,
          SandboxGoverness(World, "S1", value))
  /\ UNCHANGED <<chains, trace>>

\* perimeter.governess = value
SetPerimeterGoverness(pid, value) ==
  /\ last.op = "none"
  /\ Ends("perimeter.setGoverness", pid, <<value.kind>>,
          PerimeterGovernessSet(World, pid, value))
  /\ UNCHANGED <<chains, trace>>

\* a question that changes no object ended as r
Answered(op, name, args, r) ==
  /\ last' = Call(op, name, args, r)
  /\ UNCHANGED <<governess, governess2, perimeter, sandbox, chains, trace>>

\* isAllowed(action, ...args) put to the Governess g
IsAllowedBy(g, action, args) ==
  Forwarded(g, Returned(g, IsAllowed(g, action, args), <<>>))

\* isNotAllowed(action, ...args) put to the Governess g
IsNotAllowedBy(g, action, args) ==
  Forwarded(g, Returned(g, IsNotAllowed(g, action, args), <<>>))

\* guard(action, ...args) put to the Governess g
GuardBy(g, action, args) == Forwarded(g, GuardOf(g, action, args))

\* perimeter.isAllowed(action, ...args)
PerimeterIsAllowedCall(pid, action, args) ==
  /\ last.op = "none"
  /\ Answered("perimeter.isAllowed", pid, <<action>> \o args,
              IsAllowedBy(GovernessOf(World, perimeter[pid]), action, args))

\* perimeter.isNotAllowed(action, ...args)
PerimeterIsNotAllowedCall(pid, action, args) ==
  /\ last.op = "none"
  /\ Answered("perimeter.isNotAllowed", pid, <<action>> \o args,
              IsNotAllowedBy(GovernessOf(World, perimeter[pid]), action, args))

\* perimeter.guard(action, ...args)
PerimeterGuardCall(pid, action, args) ==
  /\ last.op = "none"
  /\ WithinCounts(GovernessOf(World, perimeter[pid]))
  /\ PerimeterCallEnds("perimeter.guard", pid, <<action>> \o args,
                       perimeter[pid],
                       GuardBy(GovernessOf(World, perimeter[pid]), action, args))
  /\ UNCHANGED <<chains, trace>>

\* the Purpose's question about the Perimeter getPerimeter found, which is
\* none for null: null has no methods
AboutPerimeter(pid, r) ==
  IF pid = UNDEF THEN Raised(NoGoverness, "TypeError", <<>>) ELSE r

\* sandbox[pn].isAllowed(action, ...args) on the first Sandbox
PurposeIsAllowedCall(pn, action, args) ==
  /\ last.op = "none"
  /\ pn \in sandbox["S1"].purposes
  /\ Answered("purpose.isAllowed", pn, <<action>> \o args,
              AboutPerimeter(GetPerimeter(World, "S1", pn),
                IsAllowedBy(PurposeAnswerer(World,
                              perimeter[GetPerimeter(World, "S1", pn)]),
                            action, args)))

\* sandbox[pn].guard(action, ...args) on the first Sandbox; the guard of a
\* HeadGoverness or an EasyGoverness leaves the Governess as it was
PurposeGuardCall(pn, action, args) ==
  /\ last.op = "none"
  /\ pn \in sandbox["S1"].purposes
  /\ Answered("purpose.guard", pn, <<action>> \o args,
              AboutPerimeter(GetPerimeter(World, "S1", pn),
                GuardBy(PurposeAnswerer(World,
                          perimeter[GetPerimeter(World, "S1", pn)]),
                        action, args)))

InitGoverness == InitAttach

NextGoverness ==
  \/ \E pids \in PerimLists : LoadPerimeterCall("S1", pids)
  \/ \E value \in GovernessValues : SetSandboxGoverness(value)
  \/ \E pid \in PerimIds, value \in GovernessValues :
        SetPerimeterGoverness(pid, value)
  \/ \E pid \in PerimIds, action \in Names, args \in ArgLists :
        PerimeterIsAllowedCall(pid, action, args)
  \/ \E pid \in PerimIds, action \in Names, args \in ArgLists :
        PerimeterIsNotAllowedCall(pid, action, args)
  \/ \E pid \in PerimIds, action \in Names, args \in ArgLists :
        PerimeterGuardCall(pid, action, args)
  \/ \E pn \in PurposeNames, action \in Names, args \in ArgLists :
        PurposeIsAllowedCall(pn, action, args)
  \/ \E pn \in PurposeNames, action \in Names, args \in ArgLists :
        PurposeGuardCall(pn, action, args)
  \/ \E name \in Names, args \in ArgLists : Trampoline(name, args)
  \/ Return

SpecGoverness == InitGoverness /\ [][NextGoverness]_vars

----------------------------------------------------------------------------
(* SpecVariants: a Sandbox whose Perimeter exposes two names, for one      *)
(* function or for two, and whose main Governess becomes a GermanGoverness *)
(* or a MiddlewareGoverness                                                *)

\* new GermanGoverness(), new MiddlewareGoverness(middleware)
VariantValues ==
  {NewGoverness("GermanGoverness")}
    \cup {NewMiddlewareGoverness(middleware) : middleware \in Middlewares}

InitVariants ==
  /\ governess = NewGoverness("HeadGoverness")
  /\ governess2 = NewGoverness("HeadGoverness")
  /\ \E act \in Functions, other \in Functions :
        perimeter = Perimeters(<<"act", "other">>,
                               [n \in Names |-> IF n = "act" THEN act ELSE other])
  /\ sandbox = [s \in SandboxIds |-> NewSandbox]
  /\ NoChains
  /\ last = Idle

\* perimeter.expose = expose
SetExpose(pid, expose) ==
  /\ last.op = "none"
  /\ perimeter[pid].expose # expose
  /\ perimeter' = [perimeter EXCEPT ![pid].expose = expose]
  /\ UNCHANGED <<governess, governess2, sandbox, chains, trace, last>>

\* sandbox.governess.governed(callback, args): callingContext is left to its
\* default, null
GovernedCall(callback, args) ==
  /\ last.op = "none"
  /\ WithinCounts(governess)
  /\ GovernessCallEnds("governed", callback, args, "S1",
                       Governed(governess, callback, args, NullContext))
  /\ UNCHANGED <<perimeter, sandbox, chains, trace>>

NextVariants ==
  \/ LoadPerimeter
  \/ \E callback \in Functions, args \in ArgLists : GovernedCall(callback, args)
  \/ \E value \in VariantValues : SetSandboxGoverness(value)
  \/ SetExpose("P1", <<>>)
  \/ \E value \in BOOLEAN : SetUnguarded(value)
  \/ \E name \in Names, args \in ArgLists : Trampoline(name, args)
  \/ Return

SpecVariants == InitVariants /\ [][NextVariants]_vars

----------------------------------------------------------------------------
(* SpecRules: a Governess of any class to which rules are added, each      *)
(* constructed from a rule string and a definition of any kind             *)

\* new K() of the five classes
AllGovernesses ==
  {NewGoverness(kind) : kind \in Kinds \cup {"StrictGoverness"}}
    \cup {NewMiddlewareGoverness("pass")}

InitRules ==
  /\ governess \in AllGovernesses
  /\ governess2 = NewGoverness("HeadGoverness")
  /\ perimeter = Perimeters(<<"act">>,
                            [n \in Names |-> IF n = "act" THEN "plain" ELSE UNDEF])
  /\ sandbox = [s \in SandboxIds |-> NewSandbox]
  /\ NoChains
  /\ last = Idle

\* new Rule(str, def): the constructor of Definition throws when the
\* definition resolves to no type
NewRule(g, str, def) ==
  IF Resolve(def) = UNDEF
  THEN Raised(g, "WrongRuleDefinition", <<>>)
  ELSE Returned(AddRuleTo(g, Rule(str, def, "")), UNDEF, <<>>)

\* governess.addRule(new Rule(str, DefInputs[i]))
NewRuleCall(str, i) ==
  /\ last.op = "none"
  /\ Len(governess.rules) < MaxRules
  /\ governess' = NewRule(governess, str, DefInputs[i]).g
  /\ last' = [Call("newRule", str, <<>>, NewRule(governess, str, DefInputs[i]))
                EXCEPT !.idx = i]
  /\ UNCHANGED <<governess2, perimeter, sandbox, chains, trace>>

NextRules ==
  \/ \E str \in RuleStrings, i \in 1..Len(DefInputs) : NewRuleCall(str, i)
  \/ \E value \in BOOLEAN : SetUnguarded(value)
  \/ \E action \in Actions, args \in ArgLists : IsAllowedCall(action, args)
  \/ Return

SpecRules == InitRules /\ [][NextRules]_vars

----------------------------------------------------------------------------
(* SpecFrame: a Governess of any class put through every operation: rules  *)
(* are added and learned, the Perimeter is loaded, questions are asked,    *)
(* the trampolines and governed are called, the flag is assigned           *)

InitFrame ==
  /\ governess \in AllGovernesses
  /\ governess2 = NewGoverness("HeadGoverness")
  /\ perimeter = Perimeters(<<"act", "other">>,
                            [n \in Names |-> IF n = "act" THEN "guarding"
                                                          ELSE "plain"])
  /\ sandbox = [s \in SandboxIds |-> NewSandbox]
  /\ NoChains
  /\ last = Idle

NextFrame ==
  \/ \E def \in RuleDefs : AddRule("cannot act", def)
  \/ \E pid \in PerimIds : LearnRulesCall("S1", pid)
  \/ LoadPerimeter
  \/ \E value \in BOOLEAN : SetUnguarded(value)
  \/ \E args \in ArgLists : IsAllowedCall("act", args)
  \/ \E args \in ArgLists : IsNotAllowedCall("act", args)
  \/ \E args \in ArgLists : GuardCall("act", args)
  \/ \E callback \in Functions, args \in ArgLists : GovernedCall(callback, args)
  \/ \E name \in Names, args \in ArgLists : Trampoline(name, args)
  \/ \E callback \in Callbacks : DoUnguardedCall(callback)
  \/ Return

SpecFrame == InitFrame /\ [][NextFrame]_vars

----------------------------------------------------------------------------
(* SpecContexts: two Perimeters whose rule maps hold one and the same      *)
(* function, which reads this.mine, taught to the Governesses in any order *)

\* govern: { [str]: mine }
GovernMine(str) == << [raw |-> str, def |-> DefFunction("mine")] >>

InitContexts ==
  /\ governess = NewGoverness("HeadGoverness")
  /\ governess2 = NewGoverness("HeadGoverness")
  /\ \E str \in RuleStrings :
        perimeter =
          [id \in PerimIds |->
             Perimeter(id, IF id = "P1" THEN "p" ELSE "q",
                       GovernMine(IF id = "P1" THEN "can act" ELSE str),
                       <<"act">>,
                       [n \in Names |-> IF n = "act" THEN "plain" ELSE UNDEF])]
  /\ sandbox = [s \in SandboxIds |-> NewSandbox]
  /\ NoChains
  /\ last = Idle

\* the definitions a rule of a rule map is replaced with:  ['a'],  ['b']
NewDefs == {DefArray(<<"a">>), DefArray(<<"b">>)}

\* perimeter.govern[str] = def, for the rule string of the rule map
SetGovern(pid, def) ==
  /\ last.op = "none"
  /\ perimeter[pid].govern[1].def # def
  /\ perimeter' = [perimeter EXCEPT ![pid].govern[1].def = def]
  /\ UNCHANGED <<governess, governess2, sandbox, chains, trace, last>>

NextContexts ==
  \/ \E s \in SandboxIds, pid \in PerimIds : LearnRulesCall(s, pid)
  \/ \E pid \in PerimIds, def \in NewDefs : SetGovern(pid, def)
  \/ \E value \in BOOLEAN : SetUnguarded(value)
  \/ \E i \in 1..MaxRules, args \in ArgLists : VerifyCall(i, args)
  \/ \E args \in ArgLists : IsAllowedCall("act", args)
  \/ Return

SpecContexts == InitContexts /\ [][NextContexts]_vars

----------------------------------------------------------------------------
(* SpecChains: doUnguarded taken one step at a time by two call chains on  *)
(* one Governess.  chains[c] holds the previousUnguardedState of every     *)
(* doUnguarded call chain c is inside, innermost last; trace is the order  *)
(* in which the scopes were entered and left.                              *)

InitChains ==
  /\ \E kind \in {"HeadGoverness", "EasyGoverness"} :
        governess = NewGoverness(kind)
  /\ governess2 = NewGoverness("HeadGoverness")
  /\ perimeter = Perimeters(<<"act">>,
                            [n \in Names |-> IF n = "act" THEN "plain" ELSE UNDEF])
  /\ sandbox = [s \in SandboxIds |-> NewSandbox]
  /\ NoChains
  /\ last = Idle

Step(c, step) == [chain |-> c, step |-> step]

\* chain c calls doUnguarded: the flag is saved and set, the callback begins
EnterScope(c) ==
  /\ Len(trace) < MaxTrace
  /\ Len(chains[c]) < MaxDepth
  /\ chains' = [chains EXCEPT ![c] = Append(@, governess.unguarded)]
  /\ governess' = EnterUnguarded(governess)
  /\ trace' = Append(trace, Step(c, "enter"))
  /\ UNCHANGED <<governess2, perimeter, sandbox, last>>

\* the callback of chain c's innermost doUnguarded ends (returning or
\* throwing): the finally block restores the flag
ExitScope(c) ==
  /\ Len(trace) < MaxTrace
  /\ chains[c] # <<>>
  /\ governess' = RestoreUnguarded(governess, chains[c][Len(chains[c])])
  /\ chains' = [chains EXCEPT ![c] = SubSeq(@, 1, Len(@) - 1)]
  /\ trace' = Append(trace, Step(c, "exit"))
  /\ UNCHANGED <<governess2, perimeter, sandbox, last>>

NextChains ==
  \/ \E c \in ChainIds : EnterScope(c)
  \/ \E c \in ChainIds : ExitScope(c)

SpecChains == InitChains /\ [][NextChains]_vars

----------------------------------------------------------------------------
(* Properties *)

\* the rules learned for an action name, by position in the rule list
RulesFor(name) == {i \in 1..Len(governess.rules) : governess.rules[i].action = name}

\* the condition a rule lists (item listed, pattern matches, predicate
\* returns true) is met by the arguments
Matched(rule, args) ==
  CASE rule.def.tag = "array"    -> \E i \in 1..Len(rule.def.items) :
                                       rule.def.items[i] = Arg(args, 0)
    [] rule.def.tag = "regexp"   -> StringOf(Arg(args, 0)) \in rule.def.accepts
    [] rule.def.tag = "function" ->
         CallFunction(rule.def.fn, rule.def.ruleContext, args)
    [] OTHER -> FALSE

PermitVerified(name, args) ==
  \E i \in RulesFor(name) :
     governess.rules[i].positive /\ Verify(governess.rules[i], args)

ForbidVerified(name, args) ==
  \E i \in RulesFor(name) :
     ~governess.rules[i].positive /\ Verify(governess.rules[i], args)

StrictPermitFailed(name, args) ==
  \E i \in RulesFor(name) :
     /\ governess.rules[i].positive
     /\ governess.rules[i].def.tag \in {"regexp", "function"}
     /\ ~Verify(governess.rules[i], args)

ForbidMatched(name, args) ==
  \E i \in RulesFor(name) :
     ~governess.rules[i].positive /\ Matched(governess.rules[i], args)

\* C1: on a guarded Governess, isAllowed(action, args) is true exactly when
\* some permit rule for the action verifies true, no forbid rule for it
\* verifies true, and no strict permit rule (pattern or predicate) for it
\* verifies false; a failing permit itemSet rule does not block.  (Stated
\* for action names that name an action; the falsy names are C4's.)
C1_IsAllowedIsPermitWithoutStrictBlock ==
  (last.op = "isAllowed" /\ ~governess.unguarded /\ Truthy(last.name))
    => (last.value <=> /\ PermitVerified(last.name, last.args)
                       /\ ~ForbidVerified(last.name, last.args)
                       /\ ~StrictPermitFailed(last.name, last.args))

\* C2: on a guarded Governess, a forbid rule for the action whose forbidden
\* condition is matched by the arguments makes isAllowed false and guard
\* raise AccessDenied, however many permit rules verify.
C2_MatchedForbidRuleDenies ==
  (/\ last.op \in {"isAllowed", "guard"}
   /\ ~governess.unguarded
   /\ Truthy(last.name)
   /\ ForbidMatched(last.name, last.args))
    => IF last.op = "isAllowed" THEN last.value = FALSE
                                ELSE last.outcome = "AccessDenied"

\* C3: Rule.verify on a forbid rule reports true exactly when the forbidden
\* condition is matched by the arguments, for every definition kind.
C3_ForbidVerifyTrueIffMatched ==
  (last.op = "verify" /\ ~governess.rules[last.idx].positive)
    => (last.value <=> Matched(governess.rules[last.idx], last.args))

\* C4: on a guarded Governess, isAllowed(action, args) is false whenever no
\* learned rule has that action name, the empty and the undefined action
\* name included.
C4_NoMatchingRuleDenies ==
  (last.op = "isAllowed" /\ ~governess.unguarded /\ RulesFor(last.name) = {})
    => last.value = FALSE

ExecEvents(events) == {i \in 1..Len(events) : events[i].e = "exec"}

C8_PermissiveStillDeniesForbidden ==
  (/\ last.op = "isAllowed"
   /\ governess.kind = "EasyGoverness"
   /\ governess.unguarded
   /\ Truthy(last.name))
    => (last.value <=> ~ForbidMatched(last.name, last.args))

\* C9: base guard returns its first argument when isAllowed is true and
\* raises AccessDenied otherwise, and leaves the rule list and the
\* unguarded flag as they were.
C9_GuardReturnsTargetOrRaises ==
  [][last'.op = "guard"
       => /\ governess'.rules = governess.rules
          /\ governess'.unguarded = governess.unguarded
          /\ IF IsAllowed(governess, last'.name, last'.args)
             THEN last'.outcome = "return" /\ last'.value = Arg(last'.args, 0)
             ELSE last'.outcome = "AccessDenied"]_vars

\* guard returned its target
C9_Witness ==
  /\ last.op = "guard" /\ last.name = "act"
  /\ ~governess.unguarded /\ governess.rules # <<>>
  /\ last.outcome = "return" /\ last.value = "a" /\ last.args = <<"a", "b">>

\* C10: under an AutoGuardAll Governess every trampoline call guards first;
\* when that guard denies, AccessDenied is raised and the operation is not
\* executed, and the operation executes only after the guard returned.
C10_AutoGuardBeforeOperation ==
  (last.op = "trampoline" /\ governess.kind = "GermanGoverness")
    => /\ last.events # <<>>
       /\ last.events[1].e = "guard"
       /\ ~last.events[1].ok
            => last.outcome = "AccessDenied" /\ ExecEvents(last.events) = {}
       /\ \A i \in ExecEvents(last.events) : i > 1 /\ last.events[1].ok

\* the automatic guard denied and the operation did not run
C10_Witness ==
  /\ last.op = "trampoline" /\ governess.kind = "GermanGoverness"
  /\ last.outcome = "AccessDenied"
  /\ last.events = <<GuardEvent(last.name, FALSE)>>

----------------------------------------------------------------------------
(* StrictGoverness (SpecStrict) *)

GuardEvents(events) == {i \in 1..Len(events) : events[i].e = "guard"}

\* C11: under a guarded StrictGoverness, and whatever guard and trampoline
\* calls came before, the trampoline of an operation that never calls
\* guard executes the operation and then raises AccessDenied.
C11_UnguardedOperationRaisesOnReturn ==
  (/\ last.op = "trampoline"
   /\ governess.kind = "StrictGoverness"
   /\ ~governess.unguarded
   /\ perimeter["P1"].methods[last.name] = "plain")
    => /\ last.events = <<ExecEvent("plain")>>
       /\ last.outcome = "AccessDenied"

\* C12: under a guarded StrictGoverness a trampoline call containing one
\* successful guard call raises nothing, whatever calls came before,
\* trampoline calls made while the Governess was unguarded included.
C12_GuardedOperationRaisesNothing ==
  (/\ last.op = "trampoline"
   /\ governess.kind = "StrictGoverness"
   /\ ~governess.unguarded
   /\ Cardinality(GuardEvents(last.events)) = 1
   /\ \A i \in GuardEvents(last.events) : last.events[i].ok)
    => last.outcome = "return"

----------------------------------------------------------------------------
(* doUnguarded *)

FlagEvents(events) == {i \in 1..Len(events) : events[i].e = "flag"}

\* C13: doUnguarded(callback) has the unguarded flag true for the duration
\* of callback (every reading a callback makes, at its start and after a
\* doUnguarded nested in it has ended, is true) and, whether callback
\* returns or throws, leaves the flag at the value it had before the call;
\* so at any depth of nesting, and after the outermost call.
C13_DoUnguardedSetsAndRestores ==
  [][last'.op = "doUnguarded"
       => /\ governess'.unguarded = governess.unguarded
          /\ Cardinality(FlagEvents(last'.events)) >= Len(last'.args)
          /\ \A i \in FlagEvents(last'.events) : last'.events[i].ok]_vars

\* a doUnguarded call on a guarded Governess whose callback nested a
\* second doUnguarded with a throwing callback: both callbacks read the
\* flag as true, the error came out, and the Governess is guarded again
C13_Witness ==
  /\ last.op = "doUnguarded"
  /\ last.args = <<"nest", "throw">>
  /\ last.outcome = "Error"
  /\ last.events = <<FlagEvent(TRUE), FlagEvent(TRUE)>>
  /\ ~governess.unguarded

----------------------------------------------------------------------------
(* learnRules and loadPerimeter (SpecAttach) *)

IsPrefix(a, b) == Len(a) <= Len(b) /\ SubSeq(b, 1, Len(a)) = a

\* the Governess holds a rule with this text that came from this Perimeter
LearnedFrom(g, pid, raw) ==
  \E i \in 1..Len(g.rules) : g.rules[i].raw = raw /\ g.rules[i].perim = pid

\* no (rule text, Perimeter) pair is held twice
NoRuleTwice(g) ==
  \A i \in 1..Len(g.rules), j \in 1..Len(g.rules) :
     (/\ i # j
      /\ g.rules[i].perim # ""
      /\ g.rules[i].raw = g.rules[j].raw)
       => g.rules[i].perim # g.rules[j].perim

\* C15: every operation leaves the rules a Governess held in place and in
\* order; learnRules(p) returns the number of rules it appended; it
\* returns 0 and changes nothing when every rule of p was already learned
\* from p; a rule of p not yet learned from p is appended, with p as its
\* origin, also when another Perimeter gave a rule with the same text; and
\* no (text, Perimeter) pair is ever held twice.
C15_RulesAppendOnlyDedupedPerPerimeter ==
  [][/\ IsPrefix(governess.rules, governess'.rules)
     /\ IsPrefix(governess2.rules, governess2'.rules)
     /\ NoRuleTwice(governess') /\ NoRuleTwice(governess2')
     /\ last'.op = "learnRules" =>
          LET pid == last'.args[1]
              govern == perimeter[pid].govern
              before == GovOf(governess, governess2, last'.name)
              after == GovOf(governess', governess2', last'.name)
              new == {i \in 1..Len(govern) :
                        ~LearnedFrom(before, pid, govern[i].raw)}
          IN  /\ last'.value = Len(after.rules) - Len(before.rules)
              /\ new = {} => last'.value = 0 /\ after.rules = before.rules
              /\ \A i \in new :
                    \E k \in (Len(before.rules) + 1)..Len(after.rules) :
                       /\ after.rules[k].raw = govern[i].raw
                       /\ after.rules[k].perim = pid]_vars

\* a second learnRules of the first Perimeter returned 0 on a Governess
\* holding the same rule text once from each Perimeter
C15_Witness ==
  /\ last.op = "learnRules" /\ last.name = "S1" /\ last.args = <<"P1">>
  /\ last.value = 0
  /\ Len(governess.rules) = 2
  /\ governess.rules[1].raw = governess.rules[2].raw
  /\ governess.rules[1].perim = "P2" /\ governess.rules[2].perim = "P1"

\* some Perimeter in the list of Sandbox s has this purpose now
NameAttached(s, name) ==
  \E i \in 1..Len(sandbox[s].perimeters) :
     perimeter[sandbox[s].perimeters[i]].purpose = name

\* C16: loadPerimeter of Perimeters whose names are all loaded in the
\* Sandbox already returns 0 and changes nothing: not the Sandbox's
\* Perimeter list, Purposes and trampolines, not the rules of a Governess,
\* not the sandbox reference or the purposeGoverness of a Perimeter.
C16_LoadingLoadedNameIsNoOp ==
  [][(/\ last'.op = "loadPerimeter"
      /\ \A i \in 1..Len(last'.args) :
            NameAttached(last'.name, perimeter[last'.args[i]].purpose))
       => /\ last'.outcome = "return" /\ last'.value = 0
          /\ sandbox' = sandbox
          /\ governess' = governess /\ governess2' = governess2
          /\ perimeter' = perimeter]_vars

\* the second Perimeter, never loaded anywhere, was given to the first
\* Sandbox under the name of the first Perimeter, which is loaded there:
\* 0 came back and the second Perimeter has no Sandbox and no
\* purposeGoverness
C16_Witness ==
  /\ last.op = "loadPerimeter" /\ last.name = "S1" /\ last.args = <<"P2">>
  /\ last.value = 0
  /\ sandbox["S1"].perimeters = <<"P1">>
  /\ perimeter["P2"].purpose = perimeter["P1"].purpose
  /\ perimeter["P2"].sandbox = UNDEF
  /\ perimeter["P2"].purposeGoverness.kind = "none"

\* C17: no two Perimeters in the list of a Sandbox have the same name,
\* whatever loadPerimeter calls and assignments to perimeter.purpose were
\* made, and every loadPerimeter call that returns returns the number of
\* Perimeters it added to the list.
C17_LoadedNamesUnique ==
  [][/\ \A s \in SandboxIds :
          \A i \in 1..Len(sandbox'[s].perimeters),
             j \in 1..Len(sandbox'[s].perimeters) :
             i # j => perimeter'[sandbox'[s].perimeters[i]].purpose
                        # perimeter'[sandbox'[s].perimeters[j]].purpose
     /\ (last'.op = "loadPerimeter" /\ last'.outcome = "return")
          => last'.value = Len(sandbox'[last'.name].perimeters)
                             - Len(sandbox[last'.name].perimeters)]_vars

\* C18: loadPerimeter of one Perimeter that is in another Sandbox fails,
\* and the Perimeter's sandbox reference stays the first Sandbox.
C18_SandboxReferenceSetOnce ==
  [][(/\ last'.op = "loadPerimeter"
      /\ Len(last'.args) = 1
      /\ perimeter[last'.args[1]].sandbox \notin {UNDEF, last'.name})
       => /\ last'.outcome # "return"
          /\ perimeter'[last'.args[1]].sandbox
               = perimeter[last'.args[1]].sandbox]_vars

\* C19: loadPerimeter of one Perimeter whose name is not in the Sandbox's
\* list but has a Purpose on the Sandbox takes that Purpose: it does not
\* fail over the name being present on the Sandbox, and the Purposes of
\* the Sandbox stay the same.
C19_ExistingPurposeReused ==
  [][(/\ last'.op = "loadPerimeter"
      /\ Len(last'.args) = 1
      /\ ~NameAttached(last'.name, perimeter[last'.args[1]].purpose)
      /\ perimeter[last'.args[1]].purpose \in sandbox[last'.name].purposes)
       => /\ last'.outcome # "RestrictedMethodError"
          /\ sandbox'[last'.name].purposes = sandbox[last'.name].purposes]_vars

\* the names a Perimeter exposes
Exposed(p) == {p.expose[i] : i \in 1..Len(p.expose)}

\* C20: Purpose._loadPerimeter of a Perimeter exposing (callable) names of
\* which the Purpose has a trampoline already returns, with a warning for
\* every such name, and every exposed name then routes to the new
\* Perimeter.
C20_TrampolineReplacedWithWarning ==
  [][LET s == last'.name
         pn == last'.args[1]
         p == perimeter[last'.args[2]]
     IN  (/\ last'.op = "purposeLoad"
          /\ \A n \in Exposed(p) : p.methods[n] # UNDEF
          /\ \E n \in Exposed(p) : sandbox[s].trampolines[pn][n] # UNDEF)
           => /\ last'.outcome = "return"
              /\ \A n \in Exposed(p) :
                    /\ sandbox'[s].trampolines[pn][n] = p.id
                    /\ sandbox[s].trampolines[pn][n] # UNDEF
                         => \E k \in 1..Len(last'.events) :
                               last'.events[k] = WarnEvent(n)]_vars


----------------------------------------------------------------------------
(* Purpose._loadPerimeter *)

\* the exposed names of p, by position, that _loadPerimeter refuses when
\* keys were the keys of the Purpose at the call
Refused(p, keys) ==
  {i \in 1..Len(p.expose) :
     IsRestricted(keys, p.expose[i]) \/ p.methods[p.expose[i]] = UNDEF}

First(S) == CHOOSE i \in S : \A j \in S : i <= j

\* the error _loadPerimeter owes for the exposed name
ErrorFor(p, keys, name) ==
  IF IsRestricted(keys, name) THEN "RestrictedMethodError"
  ELSE "NoExposedMethodError"

\* the step ran Purpose._loadPerimeter of Purpose pn of Sandbox s on
\* Perimeter pid: every exposed name up to the first refused one has the
\* trampoline of pid, the refused name has what it had, and the call ends
\* with the error of the refused name, or normally when there is none
Installs(s, pn, pid) ==
  LET p == perimeter[pid]
      keys == PurposeKeys(sandbox[s], pn)
      bad == Refused(p, keys)
      stop == IF bad = {} THEN Len(p.expose) + 1 ELSE First(bad)
  IN  /\ \A i \in 1..(stop - 1) :
            sandbox'[s].trampolines[pn][p.expose[i]] = pid
      /\ bad = {} => last'.outcome = "return"
      /\ bad # {} =>
            /\ last'.outcome = ErrorFor(p, keys, p.expose[stop])
            /\ p.expose[stop] \in DOMAIN sandbox[s].trampolines[pn] =>
                  sandbox'[s].trampolines[pn][p.expose[stop]] =
                    sandbox[s].trampolines[pn][p.expose[stop]]

\* the step called the trampoline of the first Sandbox's Purpose p: it
\* ended as perimeter.governed(perimeter[name], args, perimeter) ends
CallsGoverned ==
  LET p == perimeter[sandbox["S1"].trampolines["p"][last'.name]]
      r == Governed(GovernessOf(World, p), p.methods[last'.name],
                    last'.args, p)
  IN  /\ last'.outcome = r.outcome
      /\ last'.value = r.value
      /\ last'.events = r.events

\* C21: Purpose._loadPerimeter, called directly or by loadPerimeter for one
\* Perimeter whose name is new to the Sandbox and not restricted, installs
\* a trampoline of the Perimeter for every exposed name; it throws
\* RestrictedMethodError at a restricted name and NoExposedMethodError at a
\* name that is no method of the Perimeter, and installs nothing for that
\* name; the trampoline ends as perimeter.governed(method, args, perimeter)
C21_PurposeLoadInstallsOrFails ==
  [][ /\ last'.op = "purposeLoad" =>
           Installs(last'.name, last'.args[1], last'.args[2])
      /\ ( /\ last'.op = "loadPerimeter"
           /\ Len(last'.args) = 1
           /\ ~HasPerimeter(World, last'.name, perimeter[last'.args[1]].purpose)
           /\ ~IsRestricted(SandboxKeys(sandbox[last'.name]),
                            perimeter[last'.args[1]].purpose) ) =>
           Installs(last'.name, perimeter[last'.args[1]].purpose, last'.args[1])
      /\ last'.op = "trampoline" => CallsGoverned ]_vars

\* C21 witness: loading stopped at the exposed name the Perimeter has no
\* method for, after the trampoline of the name before it was installed
C21_Witness ==
  /\ last.op = "loadPerimeter"
  /\ last.outcome = "NoExposedMethodError"
  /\ sandbox["S1"].trampolines["p"]["act"] = "P1"
  /\ sandbox["S1"].trampolines["p"]["other"] = UNDEF

----------------------------------------------------------------------------
(* Names of existing members *)

\* C25: no Purpose is ever assigned to the Sandbox under the name of one of
\* the Sandbox's methods, and no trampoline is ever assigned to a Purpose
\* under the name of one of the Purpose's methods
C25_ExistingOperationsNeverReplaced ==
  \A s \in SandboxIds :
     /\ sandbox[s].purposes \cap SandboxMembers = {}
     /\ \A pn \in DOMAIN sandbox[s].trampolines :
           \A n \in PurposeMembers \cap DOMAIN sandbox[s].trampolines[pn] :
              sandbox[s].trampolines[pn][n] = UNDEF

----------------------------------------------------------------------------
(* The Governesses of Sandbox, Perimeter and Purpose *)

\* C22: the main Governess of every Sandbox holds, for every Perimeter in
\* the Sandbox's list and every rule string of its rule map, a rule learned
\* from that Perimeter, whatever loadPerimeter calls and assignments of a
\* new main Governess came before
C22_MainGovernessKnowsAttachedRules ==
  \A s \in SandboxIds :
     \A i \in 1..Len(sandbox[s].perimeters) :
        \A k \in 1..Len(perimeter[sandbox[s].perimeters[i]].govern) :
           LearnedFrom(GovOf(governess, governess2, s),
                       sandbox[s].perimeters[i],
                       perimeter[sandbox[s].perimeters[i]].govern[k].raw)

\* C22 witness: a new EasyGoverness was just assigned to the Sandbox that
\* holds both Perimeters, and it holds a rule of each
C22_Witness ==
  /\ last.op = "setGoverness"
  /\ last.outcome = "return"
  /\ Len(sandbox["S1"].perimeters) = 2
  /\ governess.kind = "EasyGoverness"
  /\ Len(governess.rules) = 2

\* what the question `last` records gets from the Governess g
AnswerOf(g) ==
  CASE last.op \in {"perimeter.isAllowed", "purpose.isAllowed"} ->
         IsAllowedBy(g, last.args[1], Tail(last.args))
    [] last.op = "perimeter.isNotAllowed" ->
         IsNotAllowedBy(g, last.args[1], Tail(last.args))
    [] last.op \in {"perimeter.guard", "purpose.guard"} ->
         GuardBy(g, last.args[1], Tail(last.args))

\* the question `last` records ended as it ends when put to the Governess g
AnsweredBy(g) ==
  /\ last.outcome = AnswerOf(g).outcome
  /\ last.value = AnswerOf(g).value

\* C23: isAllowed, isNotAllowed and guard of a Perimeter that is in a
\* Sandbox and was never given a Governess end as they end on the current
\* main Governess of that Sandbox; those of a Perimeter whose Governess
\* was given to it end as they end on that Governess
C23_PerimeterForwardsToCurrentGoverness ==
  \A pid \in PerimIds :
     ( /\ last.op \in {"perimeter.isAllowed", "perimeter.isNotAllowed",
                       "perimeter.guard"}
       /\ last.name = pid
       /\ perimeter[pid].sandbox # UNDEF ) =>
         /\ ~perimeter[pid].given =>
               AnsweredBy(GovOf(governess, governess2, perimeter[pid].sandbox))
         /\ perimeter[pid].own = "given" =>
               AnsweredBy(perimeter[pid].ownGoverness)

\* C24: isAllowed and guard of a Purpose end as they end on the Governess
\* given to the Perimeter of that name, or on its purposeGoverness when it
\* was never given one; and a purposeGoverness holds only rules of its
\* Perimeter
C24_PurposeAnsweredByOwnOrShadow ==
  /\ ( /\ last.op \in {"purpose.isAllowed", "purpose.guard"}
       /\ GetPerimeter(World, "S1", last.name) # UNDEF ) =>
         /\ ~perimeter[GetPerimeter(World, "S1", last.name)].given =>
               AnsweredBy(perimeter[GetPerimeter(World, "S1", last.name)]
                            .purposeGoverness)
         /\ perimeter[GetPerimeter(World, "S1", last.name)].own = "given" =>
               AnsweredBy(perimeter[GetPerimeter(World, "S1", last.name)]
                            .ownGoverness)
  /\ \A pid \in PerimIds :
        \A i \in 1..Len(perimeter[pid].purposeGoverness.rules) :
           perimeter[pid].purposeGoverness.rules[i].perim = pid

----------------------------------------------------------------------------
(* MiddlewareGoverness and GermanGoverness *)

MiddlewareEvents(events) ==
  {i \in 1..Len(events) : events[i].e = "middleware"}

\* whether the middleware of the Governess g returns normally on args
Passes(g, args) ==
  CASE g.middleware = "pass" -> TRUE
    [] g.middleware = "guarding" -> IsAllowed(g, "act", args)
    [] OTHER -> FALSE

\* C28: a trampoline call under a MiddlewareGoverness calls the middleware
\* once, with the exposed method, before anything else; the method runs
\* once after it when the middleware returns and not at all when the
\* middleware throws, in which case the call throws
C28_MiddlewareOnceBeforeOperation ==
  [][ ( /\ last'.op = "trampoline"
        /\ governess.kind = "MiddlewareGoverness" ) =>
          /\ MiddlewareEvents(last'.events) = {1}
          /\ last'.events[1].name =
                perimeter[sandbox["S1"].trampolines["p"][last'.name]]
                  .methods[last'.name]
          /\ Cardinality(ExecEvents(last'.events)) =
                IF Passes(governess, last'.args) THEN 1 ELSE 0
          /\ ~Passes(governess, last'.args) => last'.outcome # "return" ]_vars

\* C28 witness: the middleware called guard, was denied, and the method did
\* not run
C28_Witness ==
  /\ last.op = "trampoline"
  /\ governess.kind = "MiddlewareGoverness"
  /\ governess.middleware = "guarding"
  /\ last.outcome = "AccessDenied"
  /\ MiddlewareEvents(last.events) = {1}
  /\ ExecEvents(last.events) = {}

\* C29: the trampoline installed under an exposed name, called under a
\* GermanGoverness, begins with a guard call whose action is that name
C29_AutoGuardUsesExposedName ==
  ( /\ last.op = "trampoline"
    /\ governess.kind = "GermanGoverness" ) =>
      /\ last.events # <<>>
      /\ last.events[1].e = "guard"
      /\ last.events[1].name = last.name

----------------------------------------------------------------------------
(* The counters of StrictGoverness *)

\* C30: when a trampoline call under a StrictGoverness ends with
\* AccessDenied although no guard call inside it was denied (the error is
\* the one governed throws after the method), the method has run exactly
\* once and both counters are 0; and when the call returns on a guarded
\* StrictGoverness, the governed count is at most the guard count
C30_StrictCountsAfterGoverned ==
  ( /\ last.op = "trampoline"
    /\ governess.kind = "StrictGoverness" ) =>
      /\ ( /\ last.outcome = "AccessDenied"
           /\ \A i \in GuardEvents(last.events) : last.events[i].ok ) =>
             /\ Cardinality(ExecEvents(last.events)) = 1
             /\ governess.guardCount = 0
             /\ governess.governedCount = 0
      /\ ( /\ last.outcome = "return"
           /\ ~governess.unguarded ) =>
             governess.governedCount <= governess.guardCount

\* C30 witness: the method that calls no guard ran and governed threw
\* afterwards
C30_Witness ==
  /\ last.op = "trampoline"
  /\ governess.kind = "StrictGoverness"
  /\ last.outcome = "AccessDenied"
  /\ GuardEvents(last.events) = {}
  /\ Cardinality(ExecEvents(last.events)) = 1
  /\ governess.guardCount = 0
  /\ governess.governedCount = 0

----------------------------------------------------------------------------
(* Rule definitions *)

\* a non-empty array, a RegExp or a function
Constructible(def) ==
  \/ def.tag = "array" /\ Len(def.items) > 0
  \/ def.tag = "regexp"
  \/ def.tag = "function"

AlwaysTrue(def) ==
  \/ def.tag = "function" /\ def.fn = "always"
  \/ def.tag = "regexp" /\ AllStrings \subseteq def.accepts

\* C27: a guarded Governess of any class whose only rule is about the
\* action asked about and has a definition every argument list satisfies
\* answers isAllowed with true when the rule is a `can` rule and with
\* false when it is a `cannot` rule
C27_SoleAlwaysTrueRuleDecides ==
  ( /\ last.op = "isAllowed"
    /\ ~governess.unguarded
    /\ Len(governess.rules) = 1
    /\ AlwaysTrue(governess.rules[1].def)
    /\ governess.rules[1].action = last.name ) =>
      last.value = governess.rules[1].positive

\* C27 witness: a StrictGoverness whose only rule is `can act` with
\* () => true was asked about act with two arguments and said yes
C27_Witness ==
  /\ last.op = "isAllowed"
  /\ governess.kind = "StrictGoverness"
  /\ ~governess.unguarded
  /\ Len(governess.rules) = 1
  /\ governess.rules[1].positive
  /\ governess.rules[1].def = DefFunction("always")
  /\ last.name = "act"
  /\ last.args = <<"b", "a">>
  /\ last.value = TRUE

----------------------------------------------------------------------------
(* purposeGoverness and perimeter.governess apart *)

\* the first item of the first rule of the Perimeter's rule map
OwnItem(p) == p.govern[1].def.items[1]

\* C31: once both Perimeters are loaded into a Sandbox whose Governess is a
\* guarded HeadGoverness, a Perimeter without a Governess of its own is
\* asked through its Purpose about its own permitted item: the Purpose
\* says yes (the purposeGoverness holds the Perimeter's rule only) where
\* the Perimeter and the Sandbox say no (their Governess was taught the
\* rule of the other Perimeter as well)
C31_PurposeAndPerimeterDiverge ==
  ( /\ last.op = "purpose.isAllowed"
    /\ Len(sandbox["S1"].perimeters) = 2
    /\ governess.kind = "HeadGoverness"
    /\ ~governess.unguarded
    /\ ~HasOwnGoverness(perimeter[GetPerimeter(World, "S1", last.name)])
    /\ last.args =
         <<"act", OwnItem(perimeter[GetPerimeter(World, "S1", last.name)])>> ) =>
      /\ last.value = TRUE
      /\ ~IsAllowed(GovernessOf(World,
                      perimeter[GetPerimeter(World, "S1", last.name)]),
                    "act", Tail(last.args))
      /\ ~IsAllowed(governess, "act", Tail(last.args))

\* C31 witness: sandbox.p.isAllowed('act', 'b') said yes after both
\* Perimeters were loaded, and perimeter.isAllowed('act', 'b') says no
C31_Witness ==
  /\ last.op = "purpose.isAllowed"
  /\ last.name = "p"
  /\ last.args = <<"act", "b">>
  /\ last.value = TRUE
  /\ sandbox["S1"].perimeters = <<"P1", "P2">>
  /\ ~HasOwnGoverness(perimeter["P1"])
  /\ ~IsAllowed(GovernessOf(World, perimeter["P1"]), "act", <<"b">>)

----------------------------------------------------------------------------
(* The purposeGoverness of every class *)

\* C32: loadPerimeter of the first Perimeter (valid, without a Governess of
\* its own, its name not yet in the Sandbox) returns, whatever the class of
\* the Sandbox's Governess, and leaves the Perimeter with a
\* purposeGoverness of that class
C32_ShadowCreatedForEveryVariant ==
  [][ ( /\ last'.op = "loadPerimeter"
        /\ ~HasPerimeter(World, "S1", perimeter["P1"].purpose)
        /\ perimeter["P1"].purposeGoverness.kind = "none" ) =>
          /\ last'.outcome = "return"
          /\ perimeter'["P1"].purposeGoverness.kind = governess.kind ]_vars

\* C33: GermanGoverness.governed called with a calling context that is no
\* Perimeter raises Error, and neither runs the callback nor calls guard
C33_GermanGovernedNeedsPerimeter ==
  ( /\ last.op = "governed"
    /\ governess.kind = "GermanGoverness" ) =>
      /\ last.outcome = "Error"
      /\ ExecEvents(last.events) = {}
      /\ GuardEvents(last.events) = {}

\* C33 witness: such a call of a callback that guards, on a guarded
\* GermanGoverness that has learned the rules of the Perimeter
C33_Witness ==
  /\ last.op = "governed"
  /\ last.name = "guarding"
  /\ governess.kind = "GermanGoverness"
  /\ ~governess.unguarded
  /\ governess.rules # <<>>
  /\ last.outcome = "Error"

----------------------------------------------------------------------------
(* The context of a function rule *)

\* C34: a rule that learnRules constructed from a function is verified with
\* the Perimeter it was learned from as the context of the function,
\* whichever Perimeter holding the same function was taught first.
C34_PredicateRunsInDeclaringPerimeter ==
  ( /\ last.op = "verify"
    /\ governess.rules[last.idx].dtype = "customMethod" ) =>
      last.value =
        Verify([governess.rules[last.idx] EXCEPT
                  !.def.ruleContext = governess.rules[last.idx].perim],
               last.args)

----------------------------------------------------------------------------
(* What the operations leave alone *)

\* C35: the unguarded flag of a Governess changes only in a step that
\* assigns it (and changes nothing else) or in a doUnguarded call:
\* isAllowed, isNotAllowed, guard, governed, the trampolines, learnRules,
\* addRule and loadPerimeter leave it as it is; and isAllowed and
\* isNotAllowed leave the whole Governess (rules and both counters) as it
\* is.
C35_FlagChangesOnlyByAssignment ==
  [][ /\ governess'.unguarded # governess.unguarded =>
           \/ last'.op = "doUnguarded"
           \/ /\ last' = last
              /\ governess' = [governess EXCEPT !.unguarded = ~governess.unguarded]
      /\ governess2'.unguarded = governess2.unguarded
      /\ last'.op \in {"isAllowed", "isNotAllowed"} =>
           /\ governess' = governess
           /\ governess2' = governess2 ]_vars

\* C35 witness: a StrictGoverness with rules and a guard count has
\* answered isNotAllowed with true
C35_Witness ==
  /\ last.op = "isNotAllowed"
  /\ last.value = TRUE
  /\ governess.kind = "StrictGoverness"
  /\ ~governess.unguarded
  /\ governess.guardCount > 0
  /\ governess.rules # <<>>

----------------------------------------------------------------------------
(* The Governess behind a trampoline *)

\* C36: in a Sandbox whose Perimeters are loaded with loadPerimeter, the
\* Governess a trampoline routes to (perimeter.governess of the Perimeter
\* it was installed for) exists and holds a rule from that Perimeter for
\* every rule text of its rule map, whatever Governesses the Perimeters
\* and the Sandbox were assigned before or after the installation.
C36_TrampolineGovernessKnowsRules ==
  \A pn \in PurposeNames, name \in Names :
     sandbox["S1"].trampolines[pn][name] # UNDEF =>
       /\ GovernessOf(World, perimeter[sandbox["S1"].trampolines[pn][name]]).kind
             # "none"
       /\ \A k \in 1..Len(perimeter[sandbox["S1"].trampolines[pn][name]].govern) :
             LearnedFrom(
               GovernessOf(World, perimeter[sandbox["S1"].trampolines[pn][name]]),
               sandbox["S1"].trampolines[pn][name],
               perimeter[sandbox["S1"].trampolines[pn][name]].govern[k].raw)

\* C36 witness: the Perimeter behind the trampoline p.act was given a
\* Governess of its own after it was loaded, and the Sandbox has since been
\* assigned another main Governess
C36_Witness ==
  /\ last.op = "setGoverness"
  /\ last.outcome = "return"
  /\ sandbox["S1"].trampolines["p"]["act"] = "P1"
  /\ perimeter["P1"].own = "given"
  /\ perimeter["P1"].ownGoverness.rules # <<>>
  /\ governess.kind = "EasyGoverness"

----------------------------------------------------------------------------
(* Recorded as loaded *)

\* C37: every Perimeter in the list of the Sandbox (for whose purpose
\* hasPerimeter answers true) has its Purpose on the Sandbox, with a
\* trampoline under every name it exposes; so a loadPerimeter that raised
\* has not put the Perimeter in the list.
C37_RecordedPerimeterHasTrampolines ==
  \A i \in 1..Len(sandbox["S1"].perimeters) :
     /\ HasPerimeter(World, "S1", perimeter[sandbox["S1"].perimeters[i]].purpose)
     /\ perimeter[sandbox["S1"].perimeters[i]].purpose \in sandbox["S1"].purposes
     /\ \A n \in Exposed(perimeter[sandbox["S1"].perimeters[i]]) :
           /\ n \in DOMAIN sandbox["S1"].trampolines[
                            perimeter[sandbox["S1"].perimeters[i]].purpose]
           /\ sandbox["S1"].trampolines[
                 perimeter[sandbox["S1"].perimeters[i]].purpose][n] # UNDEF

----------------------------------------------------------------------------
(* A denied guard call counts *)

\* C38: a guard call on a StrictGoverness adds one to the guard count
\* whether it returns or raises AccessDenied; and the trampoline of a
\* method that catches the AccessDenied of its only guard call, on a
\* guarded StrictGoverness, returns exactly when the governed count did not
\* exceed the guard count before the call, with one added to both counts.
C38_DeniedGuardIsCounted ==
  [][ /\ ( /\ last'.op = "guard"
           /\ governess.kind = "StrictGoverness" ) =>
             /\ governess'.guardCount = governess.guardCount + 1
             /\ governess'.governedCount = governess.governedCount
      /\ ( /\ last'.op = "trampoline"
           /\ governess.kind = "StrictGoverness"
           /\ ~governess.unguarded
           /\ perimeter["P1"].methods[last'.name] = "catching"
           /\ ~IsAllowed(governess, "act", last'.args) ) =>
             /\ last'.events = <<ExecEvent("catching"), GuardEvent("act", FALSE)>>
             /\ (last'.outcome = "return") <=>
                  (governess.governedCount <= governess.guardCount)
             /\ last'.outcome = "return" =>
                  /\ last'.value = "ok"
                  /\ governess'.guardCount = governess.guardCount + 1
                  /\ governess'.governedCount = governess.governedCount + 1 ]_vars

\* C38 witness: the first call on the Governess was the trampoline of the
\* catching method, whose guard call was denied, and it returned
C38_Witness ==
  /\ last.op = "trampoline"
  /\ last.outcome = "return"
  /\ last.events = <<ExecEvent("catching"), GuardEvent("act", FALSE)>>
  /\ governess.kind = "StrictGoverness"
  /\ ~governess.unguarded
  /\ governess.guardCount = 1
  /\ governess.governedCount = 1

----------------------------------------------------------------------------
(* A learned rule is never replaced *)

====
